---- MODULE Spec2Model ----
(***************************************************************************)
(* BLEX runtime core (firmware/imu-streamer/lib/blex): the per-tag locks,  *)
(* the write-once SafePtr, the BLECharShim read/notify state machine, the  *)
(* registration pipeline of Server::init, the permission mask, the locked  *)
(* SafeFuncPtr callbacks, write events, and advertising with its runtime   *)
(* tuning (setTxPower, setAdvInterval, updateAdvertising).                 *)
(*                                                                         *)
(* Threads: "ble" is the NimBLE host task that delivers characteristic     *)
(* events one at a time; "app1" and "app2" are application tasks that call *)
(* Server::init, Characteristic::setValue, CharT::pChar.set, the tuning    *)
(* setters and ServiceT::onAdvertiseStart.                                 *)
(* assert / configASSERT failures stop the firmware: aborted = TRUE.       *)
(***************************************************************************)
EXTENDS Integers, Sequences, FiniteSets, TLC

\* ------------------------------------------------------------------ bounds
\* Subscribers the stack lets attach at once in Spec.
MaxSubscribers == 2
\* Length of the run of subscribe events delivered in SpecSubscribe.
SubscribeBurst == 128
\* Calls of pChar.set that pass its check, per handle, in SpecSafePtr.
MaxPublish == 3

\* --------------------------------------------------------------- universe
\* width of std::atomic<int8_t> subscriber_count
Int8Bits == 8

NULL == "nullptr"
SRV == "NimBLEServer"
ADV == "NimBLEAdvertising"

Threads == {"ble", "app1", "app2"}
AppThreads == {"app1", "app2"}
Chars == {"c1", "c2"}
Services == <<"s1", "s2">>
Values == {1, 2}
NoChar == "none"
NoThread == "none"

\* lock tags: ScopedLock<CharT, ..> per characteristic, SafeFuncPtr<.., Service, ..>
\* per service
Tags == Chars \cup {Services[i] : i \in 1..Len(Services)}

\* user callbacks a task may store in ServiceT::onAdvertiseStart
Callbacks == {"f1", "f2"}

\* PassiveAdvService / ActiveAdvService / BothAdvService, or the bare service
Wrappers == {"passive", "active", "both", "none"}
DeviceName == "full"
ShortName == "short"

\* AdvertisingConfig's validation range
min_tx_power == -12
max_tx_power == 9
min_adv_interval == 20
max_adv_interval == 10240
\* "not set" sentinels of the runtime overrides and of the fallback AdvConfig
TxPowerUnset == -127
IntervalUnset == 0
\* the most peers the stack keeps connected
NIMBLE_MAX_CONNECTIONS == 9

\* write payloads: at most MaxPayload bytes drawn from Bytes; the written
\* characteristic declares a value_type of ValueSize bytes
MaxPayload == 3
ValueSize == 2
Bytes == {0, 1, 255}
Payloads == UNION {[1..n -> Bytes] : n \in 0..MaxPayload}

\* arguments the application passes to setTxPower (int8_t) and to
\* setAdvInterval (uint16_t): the edges of the legal ranges and their neighbours
TxInputs == {-128, -127, -13, -12, 9, 10}
IntervalInputs == {0, 19, 20, 10240, 10241}
\* restarts of advertising followed
MaxAdvStarts == 3
\* peers connected at once
MaxPeers == 2

\* the characteristic each application task keeps up to date
Streams(t) == IF t = "app1" THEN "c1" ELSE "c2"

CharsOf(s) == IF s = "s1" THEN {"c1"} ELSE {"c2"}
ServiceOf(c) == IF c = "c1" THEN "s1" ELSE "s2"
CharPtr(c) == IF c = "c1" THEN "pC1" ELSE "pC2"
Ptrs == {NULL} \cup {CharPtr(c) : c \in Chars}

\* two's complement wrap of std::atomic<int8_t> arithmetic
Int8(x) == ((x + 128) % (2 ^ Int8Bits)) - 128

\* ------------------------------------------------------------ permissions
Atoms ==
  {"Readable", "Writable", "Notifiable", "ReadEncrypted", "WriteEncrypted",
   "ReadAuthenticated", "WriteAuthenticated", "ReadAuthorized", "WriteAuthorized"}

AtomFlags(a) ==
  [canRead   |-> a \in {"Readable", "ReadEncrypted", "ReadAuthenticated", "ReadAuthorized"},
   canWrite  |-> a \in {"Writable", "WriteEncrypted", "WriteAuthenticated", "WriteAuthorized"},
   canNotify |-> a = "Notifiable",
   requireEncryption |->
     a \in {"ReadEncrypted", "WriteEncrypted", "ReadAuthenticated", "WriteAuthenticated",
            "ReadAuthorized", "WriteAuthorized"},
   requireAuthentication |->
     a \in {"ReadAuthenticated", "WriteAuthenticated", "ReadAuthorized", "WriteAuthorized"},
   requireAuthorization |-> a \in {"ReadAuthorized", "WriteAuthorized"}]

\* a bug that folds the security flags with && instead of ||
PermissionsAllOf(S) ==
  [canRead   |-> \E a \in S : AtomFlags(a).canRead,
   canWrite  |-> \E a \in S : AtomFlags(a).canWrite,
   canNotify |-> \E a \in S : AtomFlags(a).canNotify,
   requireEncryption     |-> \A a \in S : AtomFlags(a).requireEncryption,
   requireAuthentication |-> \A a \in S : AtomFlags(a).requireAuthentication,
   requireAuthorization  |-> \A a \in S : AtomFlags(a).requireAuthorization]

Permissions(S) ==
  [canRead   |-> \E a \in S : AtomFlags(a).canRead,
   canWrite  |-> \E a \in S : AtomFlags(a).canWrite,
   canNotify |-> \E a \in S : AtomFlags(a).canNotify,
   requireEncryption     |-> \E a \in S : AtomFlags(a).requireEncryption,
   requireAuthentication |-> \E a \in S : AtomFlags(a).requireAuthentication,
   requireAuthorization  |-> \E a \in S : AtomFlags(a).requireAuthorization]

ReadProperty(P) ==
  IF ~P.canRead THEN {}
  ELSE IF P.requireAuthorization THEN {"READ_AUTHOR"}
  ELSE IF P.requireAuthentication THEN {"READ_AUTHEN"}
  ELSE IF P.requireEncryption THEN {"READ_ENC"}
  ELSE {"READ"}

WriteProperty(P) ==
  IF ~P.canWrite THEN {}
  ELSE IF P.requireAuthorization THEN {"WRITE_AUTHOR"}
  ELSE IF P.requireAuthentication THEN {"WRITE_AUTHEN"}
  ELSE IF P.requireEncryption THEN {"WRITE_ENC"}
  ELSE {"WRITE"}

NotifyProperty(P) == IF P.canNotify THEN {"NOTIFY"} ELSE {}

\* the property mask register_characteristic hands to createCharacteristic
Properties(S) ==
  ReadProperty(Permissions(S)) \cup WriteProperty(Permissions(S))
    \cup NotifyProperty(Permissions(S))

\* ------------------------------------------------------------------ state
VARIABLES
  perms,        \* CharT::perms_type: the permission atoms of each characteristic
  handlers,     \* the handlers each characteristic declares
  init_called,  \* Server::init's static atomic_flag
  server,       \* Server::server (SafePtr, immutable)
  adv,          \* Server::adv (SafePtr, immutable)
  pChar,        \* CharT::pChar (SafePtr, immutable)
  stack,        \* what the host stack holds: objects created, services started
  attr,         \* the attribute value of each characteristic (0: never written)
  notified,     \* the value carried by the last notification (0: none)
  subscriber_count,
  notified_value_valid,
  lock,         \* the per-tag recursive mutex
  pc, tchar, tval, tidx,   \* each thread's position and locals
  aborted,
  net,          \* subscribes minus unsubscribes delivered, unwrapped
  lastSeq,      \* the last operation on a characteristic that ran alone
  dirty,        \* the thread's operation overlapped another on the same characteristic
  pubOk,        \* calls of pChar.set that passed its check
  late,         \* the thread's init call began after some init call had returned
  initRet,      \* what init calls returned: the first, and the last late one
  advConfig,    \* AdvConfig: the declared tx power and advertising intervals
  visibility,   \* the advertising wrapper each service is listed with
  runtime,      \* Server::runtime_tx_power_, runtime_adv_interval_min_ / _max_
  onAdvertiseStart,  \* ServiceT::onAdvertiseStart (SafeFuncPtr): the stored callback
  tptr,         \* each thread's local pointer: what it loaded or was given
  firstSeen,    \* the first non-null pointer a reader got from each pChar
  lastHandler,  \* the last user handler the shim invoked, with its argument
  ret,          \* what each thread's last library call returned
  is_const_characteristic,  \* CharT::is_const_characteristic of each characteristic
  DisconnectHandler,        \* the handler given with OnDisconnect<..>, or nullptr
  noRoom,       \* the services and characteristics the stack fails to create
  afterUnsub,   \* the last subscriber has left and no push has begun since
  newer,        \* the push that overtook the read event in flight: -1 running, its value when done
  LockPolicy,   \* the policy the server is instantiated with: blex<LockPolicy>
  detached_valid,  \* notified_value_valid of BLECharShim<CharT, DefaultLock> where no such adapter is registered
  resume        \* where a thread continues when the setValue it is in returns

vars ==
  <<perms, handlers, init_called, server, adv, pChar, stack, attr, notified,
    subscriber_count, notified_value_valid, lock, pc, tchar, tval, tidx,
    aborted, net, lastSeq, dirty, pubOk, late, initRet,
    advConfig, visibility, runtime, onAdvertiseStart, tptr, firstSeen,
    lastHandler, ret, is_const_characteristic, DisconnectHandler, noRoom,
    afterUnsub, newer, LockPolicy, detached_valid, resume>>

descVars == <<perms, handlers, is_const_characteristic, DisconnectHandler, noRoom,
             LockPolicy>>
shimVars == <<subscriber_count, notified_value_valid>>
stackVars == <<init_called, server, adv, pChar, stack>>
tuneVars == <<advConfig, visibility, runtime>>
cbVars == <<onAdvertiseStart, tptr, firstSeen>>
ghostVars == <<lastHandler, ret>>
extVars == <<tuneVars, cbVars, ghostVars>>

Flags(c) == Permissions(perms[c])

\* BLECharShim::use_read_notify_optimization
use_read_notify_optimization(c) == Flags(c).canNotify /\ Flags(c).canRead

NoOp == [op |-> "none", val |-> 0]

\* the description of ImuDevice-like firmware: c1 is a read+notify stream with
\* read and subscribe handlers, c2 a read/write setting with a read handler
MainPerms == [c \in Chars |-> IF c = "c1" THEN {"Readable", "Notifiable"}
                                           ELSE {"Readable", "Writable"}]
MainHandlers == [c \in Chars |-> IF c = "c1" THEN {"read", "subscribe"} ELSE {"read"}]

\* ImuDevice's AdvertisingConfig<9, 120, 140, ..>
MainConfig ==
  [default_tx_power |-> 9, default_adv_interval_min |-> 120,
   default_adv_interval_max |-> 140]

\* extract_adv_config's fallback AdvertisingConfig<-127, 0, 0, 0>
FallbackConfig ==
  [default_tx_power |-> TxPowerUnset, default_adv_interval_min |-> IntervalUnset,
   default_adv_interval_max |-> IntervalUnset]

\* ImuDevice lists a bare service and a passively advertised one
MainVisibility == [i \in 1..Len(Services) |-> IF i = 1 THEN "none" ELSE "passive"]

NoHandler == [op |-> "none", char |-> NoChar, arg |-> 0]
NoRet == [op |-> "none", a |-> 0, b |-> 0, val |-> "none"]

\* ImuDevice: Characteristic<..> only, and OnDisconnect<onDisconnect> whose
\* handler calls NimBLEDevice::startAdvertising() itself
MainConst == [c \in Chars |-> FALSE]
MainDisconnect == "onDisconnect"

\* before init: nothing created, every task idle
InitState ==
  /\ init_called = FALSE
  /\ server = NULL
  /\ adv = NULL
  /\ pChar = [c \in Chars |-> NULL]
  /\ stack = [servers |-> 0,
              services |-> [i \in 1..Len(Services) |-> 0],
              chars |-> [c \in Chars |-> 0],
              props |-> [c \in Chars |-> {}],
              shim |-> [c \in Chars |-> FALSE],
              serverCallbacks |-> FALSE,
              started |-> [i \in 1..Len(Services) |-> 0],
              advStarts |-> 0,
              advertising |-> FALSE,
              advData |-> [name |-> "", uuids |-> {}],
              scanResp |-> [name |-> "", uuids |-> {}],
              power |-> <<>>,
              minInterval |-> <<>>,
              maxInterval |-> <<>>,
              validated |-> [i \in 1..Len(Services) |-> <<>>],
              connected |-> 0]
  /\ attr = [c \in Chars |-> 0]
  /\ notified = [c \in Chars |-> 0]
  /\ subscriber_count = [c \in Chars |-> 0]
  /\ notified_value_valid = [c \in Chars |-> FALSE]
  /\ lock = [g \in Tags |-> [owner |-> NoThread, depth |-> 0]]
  /\ pc = [t \in Threads |-> "idle"]
  /\ tchar = [t \in Threads |-> NoChar]
  /\ tval = [t \in Threads |-> 0]
  /\ tidx = [t \in Threads |-> 0]
  /\ aborted = FALSE
  /\ net = [c \in Chars |-> 0]
  /\ lastSeq = [c \in Chars |-> NoOp]
  /\ dirty = [t \in Threads |-> FALSE]
  /\ pubOk = [c \in Chars |-> 0]
  /\ late = [t \in Threads |-> FALSE]
  /\ initRet = [first |-> "none", late |-> "none"]
  /\ runtime = [tx_power |-> TxPowerUnset, adv_interval_min |-> IntervalUnset,
                adv_interval_max |-> IntervalUnset]
  /\ onAdvertiseStart = [i \in 1..Len(Services) |-> NULL]
  /\ tptr = [t \in Threads |-> NULL]
  /\ firstSeen = [c \in Chars |-> NULL]
  /\ lastHandler = NoHandler
  /\ ret = [t \in Threads |-> NoRet]
  /\ afterUnsub = [c \in Chars |-> FALSE]
  /\ newer = [c \in Chars |-> 0]
  /\ detached_valid = [c \in Chars |-> FALSE]
  /\ resume = [t \in Threads |-> "idle"]

\* template<typename Tag = void> using DefaultLock = FreeRTOSLock<Tag>; the
\* firmware uses it: using blim = blexDefault (BLE_ON_SINGLE_CORE not defined)
DefaultLock == "FreeRTOSLock"

\* the firmware as declared, on a stack with room for every attribute
InitRest ==
  /\ is_const_characteristic = MainConst
  /\ DisconnectHandler = MainDisconnect
  /\ noRoom = {}
  /\ LockPolicy = DefaultLock
  /\ InitState

Init ==
  /\ perms = MainPerms
  /\ handlers = MainHandlers
  /\ advConfig = MainConfig
  /\ visibility = MainVisibility
  /\ InitRest

\* ------------------------------------------------------------- primitives
\* SafePtr<..., Immutable = true>::set: compare_exchange_strong(nullptr -> p),
\* then configASSERT(ok)
\* a set that stores unconditionally, as the mutable variant does
SafePtr_set_store(cur, p) == [ptr |-> p, ok |-> TRUE]

SafePtr_set(cur, p) ==
  IF cur = NULL THEN [ptr |-> p, ok |-> TRUE] ELSE [ptr |-> cur, ok |-> FALSE]

\* SafePtr::call after its load: if (p) return fn(*p); return {};
SafePtr_call(p) ==
  IF p # NULL THEN [invoked |-> TRUE, val |-> "fn"]
              ELSE [invoked |-> FALSE, val |-> "default"]

\* a bug that makes every ScopedLock share one mutex
LockTagShared(c) == "c1"

\* ScopedLock<CharT, LockPolicy>: one static mutex per Tag
LockTag(c) == c

\* the policy setValue runs under: a task calls Characteristic::setValue with
\* its default template argument, the read event calls the registered adapter
PolicyOf(t) == IF t = "ble" THEN LockPolicy ELSE DefaultLock

\* a mutex that is not recursive: its owner waits for itself
CanTakeOnce(t, c) == lock[LockTag(c)].owner = NoThread

\* a mutex that never makes a task wait
CanTakeAlways(t, c) == TRUE

\* xSemaphoreTakeRecursive can return: the mutex is free or already ours
CanTake(t, c) == lock[LockTag(c)].owner \in {NoThread, t}

Take(t, c) ==
  lock' = [lock EXCEPT ![LockTag(c)] = [owner |-> t, depth |-> @.depth + 1]]

Give(t, c) ==
  lock' = [lock EXCEPT ![LockTag(c)] =
             IF @.depth = 1 THEN [owner |-> NoThread, depth |-> 0]
                            ELSE [owner |-> @.owner, depth |-> @.depth - 1]]

\* ------------------------------------------------- bookkeeping (ghost)
\* history is kept for the characteristics that have the read+notify cache
InFlight(c) == {t \in Threads : pc[t] # "idle" /\ tchar[t] = c}

\* thread t begins a multi-step operation on c: it overlaps whatever is in flight
Begin(t, c) ==
  dirty' = [u \in Threads |->
              IF use_read_notify_optimization(c) /\ InFlight(c) # {}
                 /\ (u \in InFlight(c) \/ u = t)
              THEN TRUE ELSE dirty[u]]

\* thread t ends its operation on c; lastSeq names it when nothing overlapped it
Complete(t, c, token) ==
  /\ lastSeq' = IF use_read_notify_optimization(c)
                THEN [lastSeq EXCEPT ![c] = IF dirty[t] THEN NoOp ELSE token]
                ELSE lastSeq
  /\ dirty' = [dirty EXCEPT ![t] = FALSE]

\* an operation on c that is one atomic step
OneStep(c, token) ==
  /\ lastSeq' = IF use_read_notify_optimization(c)
                THEN [lastSeq EXCEPT ![c] = IF InFlight(c) # {} THEN NoOp ELSE token]
                ELSE lastSeq
  /\ dirty' = [u \in Threads |->
                IF use_read_notify_optimization(c) /\ u \in InFlight(c)
                THEN TRUE ELSE dirty[u]]

\* the read event on c has called its ReadHandler and has not yet returned
Sampled(c) ==
  /\ tchar["ble"] = c
  /\ pc["ble"] \in {"sv_lock", "sv_write", "sv_notify", "sv_unlock", "sv_flag"}

PushToken(t) == [op |-> IF t = "ble" THEN "miss" ELSE "push", val |-> tval[t]]

\* a shim whose cache state is one object for all characteristics
ShimShared(c) == "c2"

\* inline static read_notify_optimization: one object per BLECharShim<CharT>
ShimOf(c) == c

\* ---------------------------------------------------- BLECharShim::setValue
\* setValue returns to its caller: a task's loop, the read handler that called
\* it, or the callback that called it under the guard of SafeFuncPtr::call
Return(t) ==
  /\ pc' = [pc EXCEPT ![t] = resume[t]]
  /\ resume' = [resume EXCEPT ![t] = "idle"]
  /\ tchar' = [tchar EXCEPT ![t] = IF resume[t] = "rd_sample" THEN @ ELSE NoChar]
  /\ tval' = [tval EXCEPT ![t] = 0]
  /\ newer' = [newer EXCEPT ![tchar[t]] = IF t = "ble" THEN 0
                                          ELSE IF @ = -1 THEN tval[t] ELSE @]

\* Characteristic::setValue(newValue) called by an application task
setValue(t, c, v) ==
  /\ ~aborted /\ t \in AppThreads /\ pc[t] = "idle"
  /\ pc' = [pc EXCEPT ![t] = "sv_lock"]
  /\ tchar' = [tchar EXCEPT ![t] = c]
  /\ tval' = [tval EXCEPT ![t] = v]
  /\ Begin(t, c)
  /\ afterUnsub' = [afterUnsub EXCEPT ![c] = FALSE]
  /\ newer' = IF Sampled(c) THEN [newer EXCEPT ![c] = -1] ELSE newer
  /\ UNCHANGED <<descVars, detached_valid, resume, extVars, stackVars, attr, notified, shimVars, lock, tidx,
                 aborted, net, lastSeq, pubOk, late, initRet>>

\* ScopedLock<CharT, LockPolicy> lock;
sv_lock(t) ==
  /\ ~aborted /\ pc[t] = "sv_lock"
  /\ IF PolicyOf(t) = "NoLock"
     THEN UNCHANGED lock
     ELSE CanTake(t, tchar[t]) /\ Take(t, tchar[t])
  /\ pc' = [pc EXCEPT ![t] = "sv_write"]
  /\ UNCHANGED <<descVars, detached_valid, resume, afterUnsub, newer, extVars, stackVars, attr, notified, shimVars, tchar, tval, tidx,
                 aborted, net, lastSeq, dirty, pubOk, late, initRet>>

\* if (auto* p = CharT::pChar.get()) p->setValue(...)
sv_write(t) ==
  /\ ~aborted /\ pc[t] = "sv_write"
  /\ attr' = IF pChar[tchar[t]] # NULL THEN [attr EXCEPT ![tchar[t]] = tval[t]] ELSE attr
  /\ pc' = [pc EXCEPT ![t] =
              IF pChar[tchar[t]] # NULL /\ Flags(tchar[t]).canNotify
              THEN "sv_notify" ELSE "sv_unlock"]
  /\ UNCHANGED <<descVars, detached_valid, resume, afterUnsub, newer, extVars, stackVars, notified, shimVars, lock, tchar, tval, tidx,
                 aborted, net, lastSeq, dirty, pubOk, late, initRet>>

\* p->notify(): the stack transmits the attribute's current value
sv_notify(t) ==
  /\ ~aborted /\ pc[t] = "sv_notify"
  /\ notified' = [notified EXCEPT ![tchar[t]] = attr[tchar[t]]]
  /\ pc' = [pc EXCEPT ![t] = "sv_unlock"]
  /\ UNCHANGED <<descVars, detached_valid, resume, afterUnsub, newer, extVars, stackVars, attr, shimVars, lock, tchar, tval, tidx,
                 aborted, net, lastSeq, dirty, pubOk, late, initRet>>

\* ~ScopedLock(); without the read+notify optimization setValue returns here
sv_unlock(t) ==
  /\ ~aborted /\ pc[t] = "sv_unlock"
  /\ IF PolicyOf(t) = "NoLock" THEN UNCHANGED lock ELSE Give(t, tchar[t])
  /\ IF use_read_notify_optimization(tchar[t])
     THEN /\ pc' = [pc EXCEPT ![t] = "sv_flag"]
          /\ UNCHANGED <<tchar, tval, lastSeq, dirty, newer, resume>>
     ELSE /\ Return(t)
          /\ Complete(t, tchar[t], PushToken(t))
  /\ UNCHANGED <<descVars, detached_valid, afterUnsub, extVars, stackVars, attr, notified, shimVars, tidx,
                 aborted, net, pubOk, late, initRet>>

\* notified_value_valid.store(true, release), after the lock is released
sv_flag(t) ==
  /\ ~aborted /\ pc[t] = "sv_flag"
  /\ IF PolicyOf(t) = LockPolicy
     THEN /\ notified_value_valid' =
               [notified_value_valid EXCEPT ![ShimOf(tchar[t])] = TRUE]
          /\ UNCHANGED detached_valid
     ELSE /\ detached_valid' = [detached_valid EXCEPT ![tchar[t]] = TRUE]
          /\ UNCHANGED notified_value_valid
  /\ Return(t)
  /\ Complete(t, tchar[t], PushToken(t))
  /\ UNCHANGED <<descVars, afterUnsub, extVars, stackVars, attr, notified, subscriber_count, lock, tidx,
                 aborted, net, pubOk, late, initRet>>

\* --------------------------------------------------- characteristic events
ServiceIndex(c) == CHOOSE i \in 1..Len(Services) : c \in CharsOf(Services[i])

\* the stack delivers events for c: its callbacks are installed, its service is
\* started and the device has advertised, so that a peer can be connected
Serving(c) ==
  /\ stack.shim[c]
  /\ stack.started[ServiceIndex(c)] > 0
  /\ stack.advStarts > 0

\* a bug that never takes the fast path
CacheHitNever(c) == FALSE

\* onRead's fast path: the optimization is compiled in and the flag is set
CacheHit(c) == use_read_notify_optimization(c) /\ notified_value_valid[ShimOf(c)]

\* BLECharShim::onRead up to the call of ReadHandler
onRead(c) ==
  /\ ~aborted /\ pc["ble"] = "idle" /\ Serving(c)
  /\ "read" \in handlers[c]
  /\ IF CacheHit(c)
     THEN UNCHANGED <<pc, tchar, lastSeq, dirty, afterUnsub>>
     ELSE /\ pc' = [pc EXCEPT !["ble"] = "rd_handler"]
          /\ tchar' = [tchar EXCEPT !["ble"] = c]
          /\ Begin("ble", c)
          /\ afterUnsub' = [afterUnsub EXCEPT ![c] = FALSE]
          /\ UNCHANGED lastSeq
  /\ UNCHANGED <<descVars, detached_valid, resume, newer, extVars, stackVars, attr, notified, shimVars, lock, tval, tidx,
                 aborted, net, pubOk, late, initRet>>

\* CharT::ReadHandler(tmp); setValue(tmp);
rd_handler ==
  /\ ~aborted /\ pc["ble"] = "rd_handler"
  /\ \E v \in Values : tval' = [tval EXCEPT !["ble"] = v]
  /\ pc' = [pc EXCEPT !["ble"] = "sv_lock"]
  /\ UNCHANGED <<descVars, detached_valid, resume, afterUnsub, newer, extVars, stackVars, attr, notified, shimVars, lock, tchar, tidx,
                 aborted, net, lastSeq, dirty, pubOk, late, initRet>>

\* CharT::ReadHandler(tmp) with a handler that itself pushes a value with
\* Characteristic::setValue before it fills tmp
rd_push ==
  /\ ~aborted /\ pc["ble"] = "rd_handler"
  /\ \E v \in Values : tval' = [tval EXCEPT !["ble"] = v]
  /\ pc' = [pc EXCEPT !["ble"] = "sv_lock"]
  /\ resume' = [resume EXCEPT !["ble"] = "rd_sample"]
  /\ UNCHANGED <<descVars, detached_valid, afterUnsub, newer, extVars, stackVars, attr,
                 notified, shimVars, lock, tchar, tidx, aborted, net, lastSeq, dirty,
                 pubOk, late, initRet>>

\* the handler's push has returned: the handler fills tmp, then setValue(tmp)
rd_sample ==
  /\ ~aborted /\ pc["ble"] = "rd_sample"
  /\ \E v \in Values : tval' = [tval EXCEPT !["ble"] = v]
  /\ pc' = [pc EXCEPT !["ble"] = "sv_lock"]
  /\ UNCHANGED <<descVars, detached_valid, resume, afterUnsub, newer, extVars, stackVars,
                 attr, notified, shimVars, lock, tchar, tidx, aborted, net, lastSeq,
                 dirty, pubOk, late, initRet>>

\* a bug that clears the flag on every unsubscribe
LastSubscriberAny(prev) == TRUE

\* if (prev == 1): the last subscriber leaves
LastSubscriber(prev) == prev = 1

\* an assert that lets the counter reach -1
UnsubscribeAllowedLoose(prev) == prev >= 0

\* assert(prev > 0 && "BUG: subscriber_count went negative ...")
UnsubscribeAllowed(prev) == prev > 0

\* if constexpr (CharT::SubscribeHandler != nullptr) CharT::SubscribeHandler(subValue)
SubscribeHandler(c, subValue) ==
  lastHandler' = IF "subscribe" \in handlers[c]
                 THEN [op |-> "subscribe", char |-> c, arg |-> subValue]
                 ELSE lastHandler

\* BLECharShim::onSubscribe: the fetch_sub / fetch_add and the assert, then
\* the subscribe handler; the stack lets at most `limit` subscribers attach
onSubscribe(c, subValue, limit) ==
  /\ ~aborted /\ pc["ble"] = "idle" /\ Serving(c)
  /\ Flags(c).canNotify /\ use_read_notify_optimization(c)
  /\ IF subValue = 0
     THEN /\ subscriber_count' = [subscriber_count EXCEPT ![ShimOf(c)] = Int8(@ - 1)]
          /\ net' = [net EXCEPT ![c] = @ - 1]
          /\ IF ~UnsubscribeAllowed(subscriber_count[ShimOf(c)])
             THEN /\ aborted' = TRUE
                  /\ UNCHANGED <<pc, tchar, lastSeq, dirty, lastHandler>>
             ELSE /\ UNCHANGED aborted
                  /\ IF LastSubscriber(subscriber_count[ShimOf(c)])
                     THEN /\ pc' = [pc EXCEPT !["ble"] = "sub_clear"]
                          /\ tchar' = [tchar EXCEPT !["ble"] = c]
                          /\ Begin("ble", c)
                          /\ UNCHANGED <<lastSeq, lastHandler>>
                     ELSE /\ OneStep(c, [op |-> "unsub", val |-> 0])
                          /\ SubscribeHandler(c, subValue)
                          /\ UNCHANGED <<pc, tchar>>
     ELSE /\ net[c] < limit
          /\ subscriber_count' = [subscriber_count EXCEPT ![ShimOf(c)] = Int8(@ + 1)]
          /\ net' = [net EXCEPT ![c] = @ + 1]
          /\ OneStep(c, [op |-> "sub", val |-> 0])
          /\ SubscribeHandler(c, subValue)
          /\ UNCHANGED <<pc, tchar, aborted>>
  /\ UNCHANGED <<descVars, detached_valid, resume, afterUnsub, newer, tuneVars, cbVars, ret, stackVars, attr, notified,
                 notified_value_valid, lock, tval, tidx, pubOk, late, initRet>>

\* notified_value_valid.store(false, release), then the subscribe handler
sub_clear ==
  /\ ~aborted /\ pc["ble"] = "sub_clear"
  /\ notified_value_valid' =
       [notified_value_valid EXCEPT ![ShimOf(tchar["ble"])] = FALSE]
  /\ pc' = [pc EXCEPT !["ble"] = "idle"]
  /\ tchar' = [tchar EXCEPT !["ble"] = NoChar]
  /\ Complete("ble", tchar["ble"], [op |-> "unsub", val |-> 0])
  /\ SubscribeHandler(tchar["ble"], 0)
  /\ afterUnsub' = [afterUnsub EXCEPT ![tchar["ble"]] = TRUE]
  /\ UNCHANGED <<descVars, detached_valid, resume, newer, tuneVars, cbVars, ret, stackVars, attr, notified, subscriber_count, lock, tval, tidx,
                 aborted, net, pubOk, late, initRet>>

\* -------------------------------------------------- BLECharShim::onWrite
\* a check that refuses a payload of exactly the declared size
SizeOkStrict(data) == Len(data) > ValueSize

\* assert(data.size() >= sizeof(typename CharT::value_type))
SizeOk(data) == Len(data) >= ValueSize

\* std::memcpy(&val, data.data(), sizeof(value_type)) on a little-endian target
RECURSIVE Decode(_, _)
Decode(data, n) == IF n = 0 THEN 0 ELSE Decode(data, n - 1) + data[n] * 256 ^ (n - 1)

\* BLECharShim::onWrite for a characteristic with a non-string value_type: the
\* stack has stored the payload, pChar->getValue() returns it
onWrite(c, data) ==
  /\ ~aborted /\ pc["ble"] = "idle" /\ Serving(c) /\ Flags(c).canWrite
  /\ ret' = [ret EXCEPT !["ble"] = [NoRet EXCEPT !.op = "onWrite", !.val = data]]
  /\ IF "write" \notin handlers[c]
     THEN UNCHANGED <<aborted, lastHandler>>
     ELSE IF SizeOk(data)
          THEN /\ lastHandler' = [op |-> "write", char |-> c,
                                  arg |-> Decode(data, ValueSize)]
               /\ UNCHANGED aborted
          ELSE /\ aborted' = TRUE
               /\ UNCHANGED lastHandler
  /\ UNCHANGED <<descVars, detached_valid, resume, afterUnsub, newer, tuneVars, cbVars, stackVars, attr, notified, shimVars, lock, pc,
                 tchar, tval, tidx, net, lastSeq, dirty, pubOk, late, initRet>>

\* ------------------------------------------------- BLECharShim::onStatus
\* completion codes the stack reports for a notification or indication
StatusCodes == {0, 14, 257}

\* a shim that hands the handler the low byte of the code
StatusHandlerByte(c, code) ==
  lastHandler' = IF "status" \in handlers[c]
                 THEN [op |-> "status", char |-> c, arg |-> code % 256]
                 ELSE lastHandler

\* if constexpr (CharT::StatusHandler != nullptr) CharT::StatusHandler(code)
StatusHandler(c, code) ==
  lastHandler' = IF "status" \in handlers[c]
                 THEN [op |-> "status", char |-> c, arg |-> code]
                 ELSE lastHandler

\* BLECharShim::onStatus(pChar, code)
onStatus(c, code) ==
  /\ ~aborted /\ pc["ble"] = "idle" /\ Serving(c)
  /\ StatusHandler(c, code)
  /\ UNCHANGED <<descVars, detached_valid, resume, afterUnsub, newer, tuneVars, cbVars, ret, stackVars, attr, notified, shimVars,
                 lock, pc, tchar, tval, tidx, aborted, net, lastSeq, dirty, pubOk, late,
                 initRet>>

\* ------------------------------------------------------ BlexAdvertising
\* a selection that ignores the override
PriorityDefault(ok, override, default) == default

\* use the override if valid, otherwise the default
Priority(ok, override, default) == IF ok THEN override ELSE default

\* a range check without its lower edge
TxPowerValidLoose(d) == d <= max_tx_power

\* !(dbm < min_tx_power || dbm > max_tx_power)
TxPowerValid(d) == d >= min_tx_power /\ d <= max_tx_power

\* one interval within [min_adv_interval, max_adv_interval]
IntervalValid(ms) == ms >= min_adv_interval /\ ms <= max_adv_interval

\* setAdvInterval's check of the pair
AdvIntervalValid(min_ms, max_ms) ==
  IntervalValid(min_ms) /\ IntervalValid(max_ms) /\ min_ms <= max_ms

\* NimBLE uses 0.625 ms units: interval * 16 / 10
ToUnits(ms) == (ms * 16) \div 10

\* a filter that also advertises bare services
is_passive_adv_any(w) == w # "active"

\* is_passive_adv_pred / is_active_adv_pred: false for a bare service, else the
\* wrapper's passive_adv / active_adv
is_passive_adv_pred(w) == w # "none" /\ w \in {"passive", "both"}
is_active_adv_pred(w) == w # "none" /\ w \in {"active", "both"}

\* filter_services_pack<pred, ServicesTuple>, as the UUIDs add_service_uuids_impl adds
PassiveServices == {Services[i] : i \in {j \in 1..Len(Services) : is_passive_adv_pred(visibility[j])}}
ActiveServices == {Services[i] : i \in {j \in 1..Len(Services) : is_active_adv_pred(visibility[j])}}

\* BlexAdvertising::configure(advertising, device_name, short_name, overrides)
\* with advertising non-null: the two payloads, then power and intervals
configure(st, tx_power_override, interval_min_override, interval_max_override) ==
  LET tx_power == Priority(TxPowerValid(tx_power_override), tx_power_override,
                           advConfig.default_tx_power)
      interval_min == Priority(IntervalValid(interval_min_override),
                               interval_min_override, advConfig.default_adv_interval_min)
      interval_max == Priority(IntervalValid(interval_max_override),
                               interval_max_override, advConfig.default_adv_interval_max)
  IN [st EXCEPT
        !.advData = [name |-> ShortName, uuids |-> PassiveServices],
        !.scanResp = [name |-> DeviceName, uuids |-> ActiveServices],
        !.power = IF tx_power # TxPowerUnset THEN <<tx_power>> ELSE @,
        !.minInterval = IF interval_min # IntervalUnset /\ interval_max # IntervalUnset
                        THEN <<ToUnits(interval_min)>> ELSE @,
        !.maxInterval = IF interval_min # IntervalUnset /\ interval_max # IntervalUnset
                        THEN <<ToUnits(interval_max)>> ELSE @]

\* Server::configureAdvertising: configure with its default arguments
configureAdvertising(st) ==
  IF adv = NULL THEN st
  ELSE configure(st, advConfig.default_tx_power, IntervalUnset, IntervalUnset)

\* ------------------------------------------------------------ Server::init
\* a bug that reports success whatever became of the server
InitOutcomeTrue == "true"

\* return server.get() != nullptr;
InitOutcome == IF server # NULL THEN "true" ELSE "false"

\* the call that ran the pipeline returns r / a late call returns r
ReturnFirst(r) == initRet' = [initRet EXCEPT !.first = r]
ReturnAgain(t, r) == initRet' = IF late[t] THEN [initRet EXCEPT !.late = r] ELSE initRet

\* init_called.test_and_set(acq_rel)
init(t) ==
  /\ ~aborted /\ t \in AppThreads /\ pc[t] = "idle"
  /\ init_called' = TRUE
  /\ pc' = [pc EXCEPT ![t] = IF init_called THEN "init_ret" ELSE "init_create"]
  /\ late' = [late EXCEPT ![t] = initRet.first # "none"]
  /\ UNCHANGED <<descVars, detached_valid, resume, afterUnsub, newer, extVars, server, adv, pChar, stack, attr, notified, shimVars, lock,
                 tchar, tval, tidx, aborted, net, lastSeq, dirty, pubOk, initRet>>

\* "already initialized": return server.get() != nullptr
init_ret(t) ==
  /\ ~aborted /\ pc[t] = "init_ret"
  /\ ReturnAgain(t, InitOutcome)
  /\ pc' = [pc EXCEPT ![t] = "idle"]
  /\ late' = [late EXCEPT ![t] = FALSE]
  /\ UNCHANGED <<descVars, detached_valid, resume, afterUnsub, newer, extVars, stackVars, attr, notified, shimVars, lock, tchar, tval, tidx,
                 aborted, net, lastSeq, dirty, pubOk>>

\* NimBLEDevice::init; server.set(NimBLEDevice::createServer()); if (!server) return false
init_create(t) ==
  /\ ~aborted /\ pc[t] = "init_create"
  /\ \E p \in {NULL, SRV} :
       LET r == SafePtr_set(server, p) IN
       /\ stack' = [stack EXCEPT !.servers = IF p # NULL THEN @ + 1 ELSE @]
       /\ IF ~r.ok
          THEN /\ aborted' = TRUE
               /\ UNCHANGED <<server, pc, initRet>>
          ELSE /\ server' = r.ptr
               /\ UNCHANGED aborted
               /\ IF r.ptr = NULL
                  THEN /\ ReturnFirst("false")
                       /\ pc' = [pc EXCEPT ![t] = "idle"]
                  ELSE /\ pc' = [pc EXCEPT ![t] = "init_cb"]
                       /\ UNCHANGED initRet
  /\ UNCHANGED <<descVars, detached_valid, resume, afterUnsub, newer, extVars, init_called, adv, pChar, attr, notified, shimVars, lock,
                 tchar, tval, tidx, net, lastSeq, dirty, pubOk, late>>

\* s->setCallbacks(&callbacks); adv.set(NimBLEDevice::getAdvertising())
init_cb(t) ==
  /\ ~aborted /\ pc[t] = "init_cb"
  /\ stack' = [stack EXCEPT !.serverCallbacks = TRUE]
  /\ IF SafePtr_set(adv, ADV).ok
     THEN /\ adv' = SafePtr_set(adv, ADV).ptr
          /\ pc' = [pc EXCEPT ![t] = "init_reg"]
          /\ tidx' = [tidx EXCEPT ![t] = 1]
          /\ UNCHANGED aborted
     ELSE /\ aborted' = TRUE
          /\ UNCHANGED <<adv, pc, tidx>>
  /\ UNCHANGED <<descVars, detached_valid, resume, afterUnsub, newer, extVars, init_called, server, pChar, attr, notified, shimVars, lock,
                 tchar, tval, net, lastSeq, dirty, pubOk, late, initRet>>

\* NimBLEServer::createService: the service, or nullptr when the stack has no room
createService(i) == IF Services[i] \in noRoom THEN NULL ELSE Services[i]

\* svc->createCharacteristic(uuid, properties): the same for a characteristic
createCharacteristic(svc, c) == IF svc = NULL \/ c \in noRoom THEN NULL ELSE CharPtr(c)

\* ConstCharacteristic<T, UUID, Val>::value
ConstValue == 1

\* a shim that is installed for every characteristic
HasHandlerAlways(c) == TRUE

\* if constexpr (ReadHandler != nullptr || WriteHandler != nullptr ||
\*               StatusHandler != nullptr || SubscribeHandler != nullptr)
HasHandler(c) == handlers[c] # {}

\* register_service never checks svc or pC: svc->createCharacteristic,
\* pC->setValue and pC->setCallbacks are calls through them
NullCalls(svc, pC, c) ==
  \/ svc = NULL
  \/ pC = NULL /\ (is_const_characteristic[c] \/ HasHandler(c))

\* a call through a null pointer is undefined: the task traps, or runs on
\* with the call having done nothing
NullCallOutcomes == {"trap", "ignored"}

\* what register_characteristic<CharT> leaves in the stack: the characteristic
\* created with its property mask, and the shim installed when CharT is not
\* constant and has a handler
register_characteristic(st, c, pC, published) ==
  IF pC = NULL
  THEN st
  ELSE [st EXCEPT !.chars[c] = @ + 1,
                  !.props[c] = Properties(perms[c]),
                  !.shim[c] = IF ~is_const_characteristic[c] /\ published
                              THEN HasHandler(c) ELSE @]

\* a pipeline that starts services as soon as the first one is registered
NextAfterRegisterEager(i) == "init_start"

\* register_all_services then start_all_services: where init goes once
\* service number i is registered
NextAfterRegister(i) == IF i < Len(Services) THEN "init_reg" ELSE "init_start"

\* SafeFuncPtr::call after taking the lock: nothing when ptr is null, else ptr()
SafeFuncPtr_call(p, i) ==
  IF p = NULL THEN lastHandler ELSE [op |-> p, char |-> NoChar, arg |-> i]

\* what exists of service i: the service and its characteristics
Created(st, i) ==
  (IF st.services[i] > 0 THEN {Services[i]} ELSE {})
    \cup {c \in CharsOf(Services[i]) : st.chars[c] > 0}

\* ServiceT::validate(), the first statement of register_service: it runs on
\* what exists of the service at that point
validate(st, i) == [st EXCEPT !.validated[i] = <<Created(st, i)>>]

\* register_service<ServiceT> for the next service of register_all_services:
\* validate, createService, then register_characteristic with setValue of a
\* constant or CharT::pChar.set(pC), then auto onAdvertiseStartFunc =
\* ServiceT::onAdvertiseStart, a member-wise copy of the SafeFuncPtr made
\* without its lock
init_reg(t) ==
  /\ ~aborted /\ pc[t] = "init_reg"
  /\ LET i == tidx[t]
         c == CHOOSE x \in CharsOf(Services[i]) : TRUE
         svc == createService(i)
         pC == createCharacteristic(svc, c)
         r == IF is_const_characteristic[c]
              THEN [ptr |-> pChar[c], ok |-> TRUE]
              ELSE SafePtr_set(pChar[c], pC)
     IN \E o \in IF NullCalls(svc, pC, c) THEN NullCallOutcomes ELSE {"none"} :
        /\ stack' = register_characteristic(
                       [validate(stack, i) EXCEPT
                          !.services[i] = IF svc # NULL THEN @ + 1 ELSE @],
                       c, pC, r.ok)
        /\ attr' = IF is_const_characteristic[c] /\ pC # NULL
                   THEN [attr EXCEPT ![c] = ConstValue] ELSE attr
        /\ IF r.ok /\ o # "trap"
           THEN /\ pChar' = [pChar EXCEPT ![c] = r.ptr]
                /\ pubOk' = [pubOk EXCEPT ![c] =
                               IF is_const_characteristic[c] THEN @ ELSE @ + 1]
                /\ tptr' = [tptr EXCEPT ![t] = onAdvertiseStart[i]]
                /\ pc' = [pc EXCEPT ![t] = "init_fn"]
                /\ UNCHANGED aborted
           ELSE /\ aborted' = TRUE
                /\ UNCHANGED <<pChar, pubOk, pc, tptr>>
  /\ UNCHANGED <<descVars, detached_valid, resume, afterUnsub, newer, tuneVars, onAdvertiseStart, firstSeen, ghostVars, init_called,
                 server, adv, notified, shimVars, lock, tchar, tval, tidx, net,
                 lastSeq, dirty, late, initRet>>

\* if (onAdvertiseStartFunc) { if (adv) onAdvertiseStartFunc(); } return svc:
\* operator bool and call of the copy, each under the lock of the service's tag
init_fn(t) ==
  /\ ~aborted /\ pc[t] = "init_fn"
  /\ LockPolicy = "NoLock" \/ CanTake(t, Services[tidx[t]])
  /\ lastHandler' = IF adv # NULL THEN SafeFuncPtr_call(tptr[t], tidx[t]) ELSE lastHandler
  /\ tptr' = [tptr EXCEPT ![t] = NULL]
  /\ pc' = [pc EXCEPT ![t] = NextAfterRegister(tidx[t])]
  /\ tidx' = [tidx EXCEPT ![t] = IF tidx[t] < Len(Services) THEN tidx[t] + 1 ELSE 1]
  /\ UNCHANGED <<descVars, detached_valid, resume, afterUnsub, newer, tuneVars, onAdvertiseStart, firstSeen, ret, stackVars, attr,
                 notified, shimVars, lock, tchar, tval, aborted, net, lastSeq, dirty,
                 pubOk, late, initRet>>

\* start_service<ServiceT> for the next service of start_all_services
init_start(t) ==
  /\ ~aborted /\ pc[t] = "init_start"
  /\ LET i == tidx[t] IN
       /\ stack' = [stack EXCEPT !.started[i] =
                       IF server # NULL /\ stack.services[i] > 0 THEN @ + 1 ELSE @]
       /\ pc' = [pc EXCEPT ![t] = IF i < Len(Services) THEN "init_start" ELSE "init_adv"]
       /\ tidx' = [tidx EXCEPT ![t] = IF i < Len(Services) THEN i + 1 ELSE 0]
  /\ UNCHANGED <<descVars, detached_valid, resume, afterUnsub, newer, extVars, init_called, server, adv, pChar, attr, notified, shimVars,
                 lock, tchar, tval, aborted, net, lastSeq, dirty, pubOk, late, initRet>>

\* configureAdvertising(); NimBLEDevice::startAdvertising(); return true
init_adv(t) ==
  /\ ~aborted /\ pc[t] = "init_adv"
  /\ stack' = [configureAdvertising(stack) EXCEPT !.advStarts = @ + 1,
                                                  !.advertising = TRUE]
  /\ ReturnFirst("true")
  /\ pc' = [pc EXCEPT ![t] = "idle"]
  /\ UNCHANGED <<descVars, detached_valid, resume, afterUnsub, newer, extVars, init_called, server, adv, pChar, attr, notified, shimVars,
                 lock, tchar, tval, tidx, aborted, net, lastSeq, dirty, pubOk, late>>

\* ------------------------------------------------------- runtime tuning
\* Server::setTxPower(dbm)
setTxPower(t, dbm) ==
  /\ ~aborted /\ t \in AppThreads /\ pc[t] = "idle"
  /\ runtime' = IF TxPowerValid(dbm) THEN [runtime EXCEPT !.tx_power = dbm] ELSE runtime
  /\ ret' = [ret EXCEPT ![t] =
               [op |-> "setTxPower", a |-> dbm, b |-> 0,
                val |-> IF TxPowerValid(dbm) THEN "true" ELSE "false"]]
  /\ UNCHANGED <<descVars, detached_valid, resume, afterUnsub, newer, advConfig, visibility, cbVars, lastHandler, stackVars, attr,
                 notified, shimVars, lock, pc, tchar, tval, tidx, aborted, net, lastSeq,
                 dirty, pubOk, late, initRet>>

\* Server::setAdvInterval(min_ms, max_ms): the check, return false or
\* runtime_adv_interval_min_ = min_ms
setAdvInterval(t, min_ms, max_ms) ==
  /\ ~aborted /\ t \in AppThreads /\ pc[t] = "idle"
  /\ IF AdvIntervalValid(min_ms, max_ms)
     THEN /\ runtime' = [runtime EXCEPT !.adv_interval_min = min_ms]
          /\ pc' = [pc EXCEPT ![t] = "si_max"]
          /\ ret' = [ret EXCEPT ![t] = [op |-> "setAdvInterval", a |-> min_ms,
                                        b |-> max_ms, val |-> "none"]]
     ELSE /\ ret' = [ret EXCEPT ![t] = [op |-> "setAdvInterval", a |-> min_ms,
                                        b |-> max_ms, val |-> "false"]]
          /\ UNCHANGED <<runtime, pc>>
  /\ UNCHANGED <<descVars, detached_valid, resume, afterUnsub, newer, advConfig, visibility, cbVars, lastHandler, stackVars, attr,
                 notified, shimVars, lock, tchar, tval, tidx, aborted, net, lastSeq,
                 dirty, pubOk, late, initRet>>

\* runtime_adv_interval_max_ = max_ms; return true
si_max(t) ==
  /\ ~aborted /\ pc[t] = "si_max"
  /\ runtime' = [runtime EXCEPT !.adv_interval_max = ret[t].b]
  /\ ret' = [ret EXCEPT ![t].val = "true"]
  /\ pc' = [pc EXCEPT ![t] = "idle"]
  /\ UNCHANGED <<descVars, detached_valid, resume, afterUnsub, newer, advConfig, visibility, cbVars, lastHandler, stackVars, attr,
                 notified, shimVars, lock, tchar, tval, tidx, aborted, net, lastSeq,
                 dirty, pubOk, late, initRet>>

\* Server::updateAdvertising: adv.get(), return if null, else stopAdvertising
updateAdvertising(t) ==
  /\ ~aborted /\ t \in AppThreads /\ pc[t] = "idle"
  /\ stack.advStarts < MaxAdvStarts
  /\ IF adv = NULL
     THEN UNCHANGED <<stack, pc>>
     ELSE /\ stack' = [stack EXCEPT !.advertising = FALSE]
          /\ pc' = [pc EXCEPT ![t] = "ua_cfg"]
  /\ ret' = [ret EXCEPT ![t] = [NoRet EXCEPT !.op = "updateAdvertising"]]
  /\ UNCHANGED <<descVars, detached_valid, resume, afterUnsub, newer, tuneVars, cbVars, lastHandler, init_called, server, adv, pChar,
                 attr, notified, shimVars, lock, tchar, tval, tidx, aborted, net, lastSeq,
                 dirty, pubOk, late, initRet>>

\* Adv::configure(adv.get(), DeviceName, ShortName, runtime_tx_power_,
\* runtime_adv_interval_min_, runtime_adv_interval_max_)
ua_cfg(t) ==
  /\ ~aborted /\ pc[t] = "ua_cfg"
  /\ stack' = configure(stack, runtime.tx_power, runtime.adv_interval_min,
                        runtime.adv_interval_max)
  /\ pc' = [pc EXCEPT ![t] = "ua_start"]
  /\ UNCHANGED <<descVars, detached_valid, resume, afterUnsub, newer, extVars, init_called, server, adv, pChar, attr, notified,
                 shimVars, lock, tchar, tval, tidx, aborted, net, lastSeq, dirty, pubOk,
                 late, initRet>>

\* NimBLEDevice::startAdvertising()
ua_start(t) ==
  /\ ~aborted /\ pc[t] = "ua_start"
  /\ stack' = [stack EXCEPT !.advStarts = @ + 1, !.advertising = TRUE]
  /\ pc' = [pc EXCEPT ![t] = "idle"]
  /\ UNCHANGED <<descVars, detached_valid, resume, afterUnsub, newer, extVars, init_called, server, adv, pChar, attr, notified,
                 shimVars, lock, tchar, tval, tidx, aborted, net, lastSeq, dirty, pubOk,
                 late, initRet>>

UpdateSteps(t) == updateAdvertising(t) \/ ua_cfg(t) \/ ua_start(t)

\* ------------------------------------------------ Server::Callbacks
\* the disconnect handlers an application may register: ImuDevice's
\* onDisconnect, which calls NimBLEDevice::startAdvertising() itself, and one
\* that only logs
DisconnectHandlers == {"onDisconnect", "logDisconnect"}

\* the body of the application's handler
RestartsAdvertising(h) == h = "onDisconnect"

\* Callbacks::onConnect: a peer connects to the advertising device and the
\* stack stops advertising; both branches of the callback only log
onConnect ==
  /\ ~aborted /\ pc["ble"] = "idle"
  /\ stack.serverCallbacks /\ stack.advertising /\ stack.connected < MaxPeers
  /\ stack' = [stack EXCEPT !.connected = @ + 1, !.advertising = FALSE]
  /\ UNCHANGED <<descVars, detached_valid, resume, afterUnsub, newer, extVars, init_called, server, adv, pChar, attr, notified,
                 shimVars, lock, pc, tchar, tval, tidx, aborted, net, lastSeq, dirty,
                 pubOk, late, initRet>>

\* if constexpr (DisconnectHandler != nullptr) .. else: the branch that holds
\* the library's NimBLEDevice::startAdvertising()
LibraryRestarts(h) == h = NULL

\* Callbacks::onDisconnect: DisconnectHandler(pServer, conn, reason) when one
\* is registered, else NimBLEDevice::startAdvertising()
onDisconnect ==
  /\ ~aborted /\ pc["ble"] = "idle"
  /\ stack.serverCallbacks /\ stack.connected > 0
  /\ stack.advStarts < MaxAdvStarts
  /\ LET restart == LibraryRestarts(DisconnectHandler)
                      \/ RestartsAdvertising(DisconnectHandler)
     IN stack' = [stack EXCEPT !.connected = @ - 1,
                               !.advStarts = IF restart THEN @ + 1 ELSE @,
                               !.advertising = IF restart THEN TRUE ELSE @]
  /\ lastHandler' = IF DisconnectHandler # NULL
                    THEN [op |-> DisconnectHandler, char |-> NoChar, arg |-> 0]
                    ELSE lastHandler
  /\ UNCHANGED <<descVars, detached_valid, resume, afterUnsub, newer, tuneVars, cbVars, ret, init_called, server, adv, pChar, attr,
                 notified, shimVars, lock, pc, tchar, tval, tidx, aborted, net, lastSeq,
                 dirty, pubOk, late, initRet>>

\* ------------------------------------------- ServiceT::onAdvertiseStart
\* set(p), get() or call() of service i's SafeFuncPtr by a task: LockGuard
fp_lock(t, i, op, p) ==
  /\ ~aborted /\ t \in AppThreads /\ pc[t] = "idle"
  /\ IF LockPolicy = "NoLock"
     THEN UNCHANGED lock
     ELSE CanTake(t, Services[i]) /\ Take(t, Services[i])
  /\ pc' = [pc EXCEPT ![t] = op]
  /\ tidx' = [tidx EXCEPT ![t] = i]
  /\ tptr' = [tptr EXCEPT ![t] = IF op = "fp_set" THEN p ELSE NULL]
  /\ UNCHANGED <<descVars, detached_valid, resume, afterUnsub, newer, tuneVars, onAdvertiseStart, firstSeen, ghostVars, stackVars,
                 attr, notified, shimVars, tchar, tval, aborted, net, lastSeq, dirty,
                 pubOk, late, initRet>>

\* the body under the guard: ptr = p / return ptr / if (!ptr) return; ptr()
fp_access(t) ==
  /\ ~aborted /\ pc[t] \in {"fp_set", "fp_get", "fp_call"}
  /\ LET i == tidx[t] IN
       /\ onAdvertiseStart' = IF pc[t] = "fp_set"
                               THEN [onAdvertiseStart EXCEPT ![i] = tptr[t]]
                               ELSE onAdvertiseStart
       /\ tptr' = IF pc[t] = "fp_get" THEN [tptr EXCEPT ![t] = onAdvertiseStart[i]]
                                      ELSE tptr
       /\ lastHandler' = IF pc[t] = "fp_call"
                          THEN SafeFuncPtr_call(onAdvertiseStart[i], i)
                          ELSE lastHandler
       /\ ret' = [ret EXCEPT ![t] =
                    [NoRet EXCEPT !.op = pc[t],
                                  !.val = IF pc[t] = "fp_call" THEN "void" ELSE "none"]]
  /\ pc' = [pc EXCEPT ![t] = "fp_unlock"]
  /\ UNCHANGED <<descVars, detached_valid, resume, afterUnsub, newer, tuneVars, firstSeen, stackVars, attr, notified, shimVars, lock,
                 tchar, tval, tidx, aborted, net, lastSeq, dirty, pubOk, late, initRet>>

\* ~LockGuard
fp_unlock(t) ==
  /\ ~aborted /\ pc[t] = "fp_unlock"
  /\ IF LockPolicy = "NoLock" THEN UNCHANGED lock ELSE Give(t, Services[tidx[t]])
  /\ pc' = [pc EXCEPT ![t] = "idle"]
  /\ tidx' = [tidx EXCEPT ![t] = 0]
  /\ tptr' = [tptr EXCEPT ![t] = NULL]
  /\ UNCHANGED <<descVars, detached_valid, resume, afterUnsub, newer, tuneVars, onAdvertiseStart, firstSeen, ghostVars, stackVars,
                 attr, notified, shimVars, tchar, tval, aborted, net, lastSeq, dirty,
                 pubOk, late, initRet>>

\* ptr(args...) under the guard of SafeFuncPtr::call, with a callback that
\* pushes a value: Characteristic::setValue(v) on characteristic c
cb_setValue(t, c, v) ==
  /\ ~aborted /\ pc[t] = "fp_call" /\ onAdvertiseStart[tidx[t]] # NULL
  /\ lastHandler' = SafeFuncPtr_call(onAdvertiseStart[tidx[t]], tidx[t])
  /\ ret' = [ret EXCEPT ![t] = [NoRet EXCEPT !.op = "fp_call", !.val = "void"]]
  /\ pc' = [pc EXCEPT ![t] = "sv_lock"]
  /\ resume' = [resume EXCEPT ![t] = "fp_unlock"]
  /\ tchar' = [tchar EXCEPT ![t] = c]
  /\ tval' = [tval EXCEPT ![t] = v]
  /\ Begin(t, c)
  /\ afterUnsub' = [afterUnsub EXCEPT ![c] = FALSE]
  /\ newer' = IF Sampled(c) THEN [newer EXCEPT ![c] = -1] ELSE newer
  /\ UNCHANGED <<descVars, detached_valid, tuneVars, onAdvertiseStart, firstSeen, tptr,
                 stackVars, attr, notified, shimVars, lock, tidx, aborted, net, lastSeq,
                 pubOk, late, initRet>>

\* ptr(args...) with a callback that reads its own service's SafeFuncPtr
cb_reenter(t) ==
  /\ ~aborted /\ pc[t] = "fp_call" /\ onAdvertiseStart[tidx[t]] # NULL
  /\ lastHandler' = SafeFuncPtr_call(onAdvertiseStart[tidx[t]], tidx[t])
  /\ ret' = [ret EXCEPT ![t] = [NoRet EXCEPT !.op = "fp_call", !.val = "void"]]
  /\ pc' = [pc EXCEPT ![t] = "cb_get"]
  /\ UNCHANGED <<descVars, detached_valid, resume, afterUnsub, newer, tuneVars,
                 onAdvertiseStart, firstSeen, tptr, stackVars, attr, notified, shimVars,
                 lock, tchar, tval, tidx, aborted, net, lastSeq, dirty, pubOk, late,
                 initRet>>

\* SafeFuncPtr::get() inside the callback: LockGuard on the tag the caller
\* already holds, return ptr, ~LockGuard
cb_get(t) ==
  /\ ~aborted /\ pc[t] = "cb_get"
  /\ LockPolicy = "NoLock" \/ CanTake(t, Services[tidx[t]])
  /\ tptr' = [tptr EXCEPT ![t] = onAdvertiseStart[tidx[t]]]
  /\ pc' = [pc EXCEPT ![t] = "fp_unlock"]
  /\ UNCHANGED <<descVars, detached_valid, resume, afterUnsub, newer, tuneVars,
                 onAdvertiseStart, firstSeen, ghostVars, stackVars, attr, notified,
                 shimVars, lock, tchar, tval, tidx, aborted, net, lastSeq, dirty, pubOk,
                 late, initRet>>

\* ------------------------------------------------------ CharT::pChar.set
\* CharT::pChar.set(p) as register_characteristic calls it, once for every
\* service that lists CharT, with whatever createCharacteristic returned
\* (nullptr when the stack has no room): the compare-exchange
pChar_set(t, c, p) ==
  /\ ~aborted /\ t \in AppThreads /\ pc[t] = "idle"
  /\ pubOk[c] < MaxPublish
  /\ pChar' = [pChar EXCEPT ![c] = SafePtr_set(@, p).ptr]
  /\ pc' = [pc EXCEPT ![t] = IF SafePtr_set(pChar[c], p).ok THEN "set_ok" ELSE "set_failed"]
  /\ tchar' = [tchar EXCEPT ![t] = c]
  /\ UNCHANGED <<descVars, detached_valid, resume, afterUnsub, newer, extVars, init_called, server, adv, stack, attr, notified, shimVars,
                 lock, tval, tidx, aborted, net, lastSeq, dirty, pubOk, late, initRet>>

\* configASSERT(ok && "SafePtr: immutable pointer set twice")
pChar_set_assert(t) ==
  /\ ~aborted /\ pc[t] \in {"set_ok", "set_failed"}
  /\ IF pc[t] = "set_ok"
     THEN /\ pubOk' = [pubOk EXCEPT ![tchar[t]] = @ + 1]
          /\ pc' = [pc EXCEPT ![t] = "idle"]
          /\ tchar' = [tchar EXCEPT ![t] = NoChar]
          /\ UNCHANGED aborted
     ELSE /\ aborted' = TRUE
          /\ UNCHANGED <<pubOk, pc, tchar>>
  /\ UNCHANGED <<descVars, detached_valid, resume, afterUnsub, newer, extVars, stackVars, attr, notified, shimVars, lock, tval, tidx,
                 net, lastSeq, dirty, late, initRet>>

\* CharT::pChar.get() by the host task: ptr_.load(acquire), no lock
pChar_get(c) ==
  /\ ~aborted /\ pc["ble"] = "idle"
  /\ tptr' = [tptr EXCEPT !["ble"] = pChar[c]]
  /\ tchar' = [tchar EXCEPT !["ble"] = c]
  /\ ret' = [ret EXCEPT !["ble"] = [NoRet EXCEPT !.op = "get"]]
  /\ firstSeen' = [firstSeen EXCEPT ![c] = IF @ = NULL THEN pChar[c] ELSE @]
  /\ UNCHANGED <<descVars, detached_valid, resume, afterUnsub, newer, tuneVars, onAdvertiseStart, lastHandler, stackVars, attr,
                 notified, shimVars, lock, pc, tval, tidx, aborted, net, lastSeq, dirty,
                 pubOk, late, initRet>>

\* CharT::pChar.call(fn), first half: T* p = ptr_.load(acquire)
pChar_call(c) ==
  /\ ~aborted /\ pc["ble"] = "idle"
  /\ tptr' = [tptr EXCEPT !["ble"] = pChar[c]]
  /\ tchar' = [tchar EXCEPT !["ble"] = c]
  /\ pc' = [pc EXCEPT !["ble"] = "call"]
  /\ lastHandler' = NoHandler
  /\ UNCHANGED <<descVars, detached_valid, resume, afterUnsub, newer, tuneVars, onAdvertiseStart, firstSeen, ret, stackVars, attr,
                 notified, shimVars, lock, tval, tidx, aborted, net, lastSeq, dirty,
                 pubOk, late, initRet>>

\* second half: if (p) return fn(*p); return {};
pChar_call_fn ==
  /\ ~aborted /\ pc["ble"] = "call"
  /\ lastHandler' = IF SafePtr_call(tptr["ble"]).invoked
                    THEN [op |-> "fn", char |-> tchar["ble"], arg |-> 0]
                    ELSE lastHandler
  /\ ret' = [ret EXCEPT !["ble"] =
               [NoRet EXCEPT !.op = "call", !.val = SafePtr_call(tptr["ble"]).val]]
  /\ pc' = [pc EXCEPT !["ble"] = "idle"]
  /\ UNCHANGED <<descVars, detached_valid, resume, afterUnsub, newer, tuneVars, onAdvertiseStart, tptr, firstSeen, stackVars, attr,
                 notified, shimVars, lock, tchar, tval, tidx, aborted, net, lastSeq,
                 dirty, pubOk, late, initRet>>

\* ---------------------------------------------------------- specifications
InitSteps(t) ==
  \/ init(t) \/ init_ret(t) \/ init_create(t) \/ init_cb(t)
  \/ init_reg(t) \/ init_fn(t) \/ init_start(t) \/ init_adv(t)

PushSteps(t) ==
  \/ sv_lock(t) \/ sv_write(t) \/ sv_notify(t) \/ sv_unlock(t) \/ sv_flag(t)

\* the firmware: application tasks initialise and push, the host task delivers
\* read, subscribe and unsubscribe events of at most MaxSubscribers peers
Next ==
  \/ \E t \in AppThreads : InitSteps(t)
  \/ \E t \in AppThreads, v \in Values : setValue(t, Streams(t), v)
  \/ \E t \in Threads : PushSteps(t)
  \/ \E c \in Chars : onRead(c)
  \/ rd_handler
  \/ \E c \in Chars, subValue \in {0, 1} : onSubscribe(c, subValue, MaxSubscribers)
  \/ sub_clear

Spec == Init /\ [][Next]_vars

\* subscribe / unsubscribe events alone, on the read+notify characteristic: a
\* peer rewrites its CCCD (notify, indicate, both) and every non-zero write is
\* one more subscribe event
NextSubscribe ==
  \/ InitSteps("app1")
  \/ \E subValue \in {0, 1} : onSubscribe("c1", subValue, SubscribeBurst)
  \/ sub_clear

SpecSubscribe == Init /\ [][NextSubscribe]_vars

\* registration of a characteristic declared with any set of permission atoms;
\* a read handler is accepted at compile time only with read permission
InitPerm ==
  /\ \E S \in SUBSET Atoms :
       /\ perms = [c \in Chars |-> IF c = "c2" THEN S ELSE MainPerms[c]]
       /\ handlers = [c \in Chars |->
                        IF c # "c2" THEN MainHandlers[c]
                        ELSE IF Permissions(S).canRead THEN {"read"} ELSE {}]
  /\ advConfig = MainConfig
  /\ visibility = MainVisibility
  /\ InitRest

NextPerm == InitSteps("app1")

SpecPerm == InitPerm /\ [][NextPerm]_vars

\* Server::init by one task while another sets, reads and invokes the
\* advertise-start callbacks of the services
FpOps == {"fp_set", "fp_get", "fp_call"}

NextCallback ==
  \/ InitSteps("app1")
  \/ \E i \in 1..Len(Services), op \in FpOps, p \in Callbacks \cup {NULL} :
       fp_lock("app2", i, op, p)
  \/ fp_access("app2")
  \/ fp_unlock("app2")

SpecCallback == Init /\ [][NextCallback]_vars

\* write events to a read/write setting that has a write handler
InitWrite ==
  /\ perms = MainPerms
  /\ handlers = [c \in Chars |-> IF c = "c2" THEN {"read", "write"} ELSE MainHandlers[c]]
  /\ advConfig = MainConfig
  /\ visibility = MainVisibility
  /\ InitRest

NextWrite ==
  \/ InitSteps("app1")
  \/ \E c \in Chars, data \in Payloads : onWrite(c, data)

SpecWrite == InitWrite /\ [][NextWrite]_vars

\* one task initialises the server, tunes power and intervals and applies
\* them; the server declares ImuDevice's AdvertisingConfig or none
InitTune ==
  /\ perms = MainPerms
  /\ handlers = MainHandlers
  /\ advConfig \in {MainConfig, FallbackConfig}
  /\ visibility = MainVisibility
  /\ InitRest

NextTune ==
  \/ InitSteps("app1")
  \/ \E dbm \in TxInputs : setTxPower("app1", dbm)
  \/ \E min_ms \in IntervalInputs, max_ms \in IntervalInputs :
       setAdvInterval("app1", min_ms, max_ms)
  \/ si_max("app1")
  \/ UpdateSteps("app1")

SpecTune == InitTune /\ [][NextTune]_vars

\* a server whose services carry any combination of visibility wrappers
InitAdv ==
  /\ perms = MainPerms
  /\ handlers = MainHandlers
  /\ advConfig = MainConfig
  /\ visibility \in [1..Len(Services) -> Wrappers]
  /\ InitRest

NextAdv == InitSteps("app1") \/ UpdateSteps("app1")

SpecAdv == InitAdv /\ [][NextAdv]_vars

\* the immutable CharT::pChar alone: tasks publishing into it while the host
\* task reads it with get and call
NextSafePtr ==
  \/ \E t \in AppThreads, c \in Chars, p \in Ptrs : pChar_set(t, c, p)
  \/ \E t \in AppThreads : pChar_set_assert(t)
  \/ \E c \in Chars : pChar_get(c)
  \/ \E c \in Chars : pChar_call(c)
  \/ pChar_call_fn

SpecSafePtr == Init /\ [][NextSafePtr]_vars

\* the handlers Characteristic<..> accepts with a permission set: OnRead needs
\* read permission, OnWrite write permission, OnSubscribe notify permission
HandlersFor(S) ==
  {"status"} \cup (IF Permissions(S).canRead THEN {"read"} ELSE {})
             \cup (IF Permissions(S).canWrite THEN {"write"} ELSE {})
             \cup (IF Permissions(S).canNotify THEN {"subscribe"} ELSE {})

\* registration of any declaration on a stack that may run out of room: each
\* characteristic is a ConstCharacteristic (readable, no handler) or a
\* Characteristic with any accepted set of handlers
InitRegister ==
  /\ is_const_characteristic \in [Chars -> BOOLEAN]
  /\ perms = [c \in Chars |-> IF is_const_characteristic[c]
                               THEN {"Readable"} ELSE MainPerms[c]]
  /\ handlers \in [Chars -> SUBSET {"read", "write", "status", "subscribe"}]
  /\ \A c \in Chars :
       handlers[c] \subseteq
         (IF is_const_characteristic[c] THEN {} ELSE HandlersFor(perms[c]))
  /\ noRoom \in SUBSET (Chars \cup {Services[i] : i \in 1..Len(Services)})
  /\ DisconnectHandler = MainDisconnect
  /\ LockPolicy = DefaultLock
  /\ advConfig = MainConfig
  /\ visibility = MainVisibility
  /\ InitState

NextRegister ==
  \/ InitSteps("app1")
  \/ \E c \in Chars, subValue \in 0..1 : onSubscribe(c, subValue, 1)
  \/ sub_clear

SpecRegister == InitRegister /\ [][NextRegister]_vars

\* the lifecycle: initialisation by the application tasks, then peers that
\* connect and disconnect, with any disconnect handler or none
InitLife ==
  /\ perms = MainPerms
  /\ handlers = MainHandlers
  /\ is_const_characteristic = MainConst
  /\ DisconnectHandler \in DisconnectHandlers \cup {NULL}
  /\ noRoom = {}
  /\ LockPolicy = DefaultLock
  /\ advConfig = MainConfig
  /\ visibility = MainVisibility
  /\ InitState

NextLife ==
  \/ \E t \in AppThreads : InitSteps(t)
  \/ onConnect
  \/ onDisconnect
  \/ UpdateSteps("app2")

SpecLife == InitLife /\ [][NextLife]_vars

\* one task initialises and tunes power and intervals while another applies
\* them with updateAdvertising
NextApply ==
  \/ InitSteps("app1")
  \/ \E dbm \in {min_tx_power, max_tx_power} : setTxPower("app1", dbm)
  \/ \E min_ms, max_ms \in {min_adv_interval, max_adv_interval} :
       setAdvInterval("app1", min_ms, max_ms)
  \/ si_max("app1")
  \/ UpdateSteps("app2")

SpecApply == InitTune /\ [][NextApply]_vars

\* the read+notify stream and the read/write setting, each with a read
\* handler, the stream with a status handler too; each receives every kind of
\* event its permissions allow
InitDomain ==
  /\ perms = MainPerms
  /\ handlers = [c \in Chars |-> IF c = "c1" THEN {"read", "status"} ELSE {"read"}]
  /\ advConfig = MainConfig
  /\ visibility = MainVisibility
  /\ InitRest

\* the operations on characteristic c: value pushes and the steps of one
\* under way, and the events the stack delivers for c
EventOn(c) ==
  \/ \E v \in Values : Streams("app2") = c /\ setValue("app2", c, v)
  \/ \E t \in Threads : tchar[t] = c /\ PushSteps(t)
  \/ onRead(c)
  \/ tchar["ble"] = c /\ rd_handler
  \/ \E subValue \in {0, 1} : onSubscribe(c, subValue, 1)
  \/ tchar["ble"] = c /\ sub_clear
  \/ onWrite(c, <<1, 0>>)
  \/ \E code \in StatusCodes : onStatus(c, code)

NextDomain ==
  \/ InitSteps("app1")
  \/ \E c \in Chars : EventOn(c)

SpecDomain == InitDomain /\ [][NextDomain]_vars

\* the firmware built with either lock policy (BLE_ON_SINGLE_CORE defined or
\* not): one task initialises the server and then streams values, peers read
\* and subscribe
InitPolicy ==
  /\ perms = MainPerms
  /\ handlers = MainHandlers
  /\ is_const_characteristic = MainConst
  /\ DisconnectHandler = MainDisconnect
  /\ noRoom = {}
  /\ LockPolicy \in {"FreeRTOSLock", "NoLock"}
  /\ advConfig = MainConfig
  /\ visibility = MainVisibility
  /\ InitState

NextPolicy ==
  \/ InitSteps("app1")
  \/ \E v \in Values : setValue("app1", Streams("app1"), v)
  \/ \E t \in Threads : PushSteps(t)
  \/ \E c \in Chars : onRead(c)
  \/ rd_handler
  \/ \E c \in Chars, subValue \in {0, 1} : onSubscribe(c, subValue, 1)
  \/ sub_clear

SpecPolicy == InitPolicy /\ [][NextPolicy]_vars

\* every path that takes a per-tag lock, under contention on the streamed
\* characteristic and its service: a task that
\* initialises and streams, read events whose handler may itself push, and a
\* task that sets, gets and calls the advertise-start callbacks, whose
\* callback may push a value or read its own SafeFuncPtr
NextLive ==
  \/ InitSteps("app1")
  \/ setValue("app1", Streams("app1"), 1)
  \/ \E t \in Threads : PushSteps(t)
  \/ onRead(Streams("app1"))
  \/ rd_handler \/ rd_push \/ rd_sample
  \/ \E op \in {"fp_set", "fp_call"} :
       fp_lock("app2", ServiceIndex(Streams("app1")), op, "f1")
  \/ fp_access("app2")
  \/ cb_setValue("app2", Streams("app1"), 1)
  \/ cb_reenter("app2")
  \/ cb_get("app2")
  \/ fp_unlock("app2")

\* the steps of thread t that wait for a mutex: xSemaphoreTakeRecursive with
\* portMAX_DELAY
Acquire(t) == sv_lock(t) \/ init_fn(t) \/ cb_get(t)

\* the steps of thread t that wait for nothing
Proceed(t) ==
  \/ sv_write(t) \/ sv_notify(t) \/ sv_unlock(t) \/ sv_flag(t)
  \/ init_ret(t) \/ init_create(t) \/ init_cb(t) \/ init_reg(t)
  \/ init_start(t) \/ init_adv(t)
  \/ fp_access(t) \/ fp_unlock(t)
  \/ (t = "ble" /\ (rd_handler \/ rd_sample))

\* fair scheduling: a task that can run does run, and a task that waits for
\* a mutex released again and again gets it
SpecLive ==
  /\ Init /\ [][NextLive]_vars
  /\ \A t \in Threads : WF_vars(Proceed(t)) /\ SF_vars(Acquire(t))

\* -------------------------------------------------------------- properties
\* C1: over subscribe / unsubscribe events in which unsubscribes never outnumber
\* subscribes, subscriber_count is never negative and equals the subscribes
\* minus the unsubscribes delivered so far.
C1_CountIsSubscribesMinusUnsubscribes ==
  \A c \in Chars :
    (use_read_notify_optimization(c) /\ net[c] >= 0) =>
      (subscriber_count[c] >= 0 /\ subscriber_count[c] = net[c])

\* C2: while a published read+notify characteristic has had no subscriber since
\* publication or since its last subscriber left, notified_value_valid is false,
\* also after a value push has written the attribute and completed.
C2_FlagFalseWithoutSubscriber ==
  \A c \in Chars :
    (/\ use_read_notify_optimization(c) /\ pChar[c] # NULL
     /\ subscriber_count[c] = 0 /\ net[c] = 0
     /\ InFlight(c) = {} /\ lastSeq[c].op \in {"push", "miss"}
     /\ attr[c] = lastSeq[c].val)
    => ~notified_value_valid[c]

\* C3: notified_value_valid goes from true to false only in the store of an
\* unsubscribe event that took subscriber_count from 1 to 0; subscribe events
\* and unsubscribe events that leave the count above 0 leave it unchanged.
C3_FlagClearedOnlyByLastUnsubscribe ==
  [][\A c \in Chars :
       /\ (notified_value_valid[c] /\ ~notified_value_valid'[c]) =>
            (pc["ble"] = "sub_clear" /\ tchar["ble"] = c /\ subscriber_count[c] = 0)
       /\ (pc["ble"] # "sub_clear" /\ pc'["ble"] = "sub_clear" /\ tchar'["ble"] = c) =>
            (subscriber_count[c] = 1 /\ subscriber_count'[c] = 0)
       /\ (net'[c] = net[c] + 1) =>
            (notified_value_valid'[c] = notified_value_valid[c] /\ pc'["ble"] = "idle")
       /\ (net'[c] = net[c] - 1 /\ subscriber_count'[c] > 0) =>
            (notified_value_valid'[c] = notified_value_valid[c] /\ pc'["ble"] = "idle")
    ]_vars

\* an unsubscribe has left one subscriber attached and the flag is still true
C3_Witness ==
  /\ lastSeq["c1"] = [op |-> "unsub", val |-> 0]
  /\ subscriber_count["c1"] = 1
  /\ notified_value_valid["c1"]

\* C4: when a value push of v on a read+notify characteristic has completed and
\* nothing else has happened to the characteristic since, a read event is served
\* from the cache and the attribute holds v.
C4_ReadAfterPushReturnsPushedValue ==
  \A c \in Chars :
    (/\ use_read_notify_optimization(c) /\ Serving(c) /\ "read" \in handlers[c]
     /\ pc["ble"] = "idle" /\ InFlight(c) = {} /\ lastSeq[c].op = "push")
    => (CacheHit(c) /\ attr[c] = lastSeq[c].val)

\* C5: with zero subscribers, the read event that follows a read event which
\* invoked the read handler invokes the handler again.
C5_SecondReadInvokesHandlerAgain ==
  \A c \in Chars :
    (/\ use_read_notify_optimization(c) /\ Serving(c) /\ "read" \in handlers[c]
     /\ subscriber_count[c] = 0 /\ net[c] = 0
     /\ pc["ble"] = "idle" /\ InFlight(c) = {} /\ lastSeq[c].op = "miss")
    => ~CacheHit(c)

\* C6: after a subscribe event followed by a completed value push of v, with one
\* subscriber attached, the next read event is a cache hit and the attribute
\* holds v.
C6_ReadAfterSubscribedPushIsCacheHit ==
  \A c \in Chars :
    (/\ use_read_notify_optimization(c) /\ Serving(c) /\ "read" \in handlers[c]
     /\ subscriber_count[c] = 1 /\ net[c] = 1
     /\ pc["ble"] = "idle" /\ InFlight(c) = {} /\ lastSeq[c].op = "push")
    => (CacheHit(c) /\ attr[c] = lastSeq[c].val /\ notified[c] = lastSeq[c].val)

\* one subscriber, then a push of 2 that ran alone: the read is about to happen
C6_Witness ==
  /\ Serving("c1") /\ subscriber_count["c1"] = 1 /\ pc["ble"] = "idle"
  /\ InFlight("c1") = {} /\ lastSeq["c1"] = [op |-> "push", val |-> 2]
  /\ attr["c1"] = 2 /\ notified_value_valid["c1"]

\* C7: a thread that waits for the lock of the characteristic it pushes to waits
\* for a thread that operates on that same characteristic, never for a thread
\* pushing to another characteristic.
C7_PushersWaitOnlyForTheirOwnCharacteristic ==
  \A t \in Threads :
    (pc[t] = "sv_lock" /\ ~CanTake(t, tchar[t])) =>
      (\E u \in Threads \ {t} :
         /\ lock[LockTag(tchar[t])].owner = u
         /\ tchar[u] = tchar[t])

\* two tasks are inside the critical sections of two different characteristics
C7_Witness ==
  /\ pc["app1"] \in {"sv_write", "sv_notify", "sv_unlock"}
  /\ pc["app2"] \in {"sv_write", "sv_notify", "sv_unlock"}
  /\ tchar["app1"] # tchar["app2"]
  /\ lock[LockTag(tchar["app1"])].owner = "app1"
  /\ lock[LockTag(tchar["app2"])].owner = "app2"

\* C8: an init call made after a first init call has returned goes straight to
\* its return, changes neither the handles nor anything held by the stack, and
\* returns what the first call returned.
C8_RepeatedInitIsNoOp ==
  [][\A t \in AppThreads :
       /\ (initRet.first # "none" /\ pc[t] = "idle" /\ pc'[t] \in {"init_ret", "init_create"}) =>
            (pc'[t] = "init_ret" /\ late'[t] /\ UNCHANGED <<server, adv, pChar, stack, aborted>>)
       /\ (late[t] /\ pc'[t] # pc[t]) =>
            /\ pc[t] = "init_ret" /\ pc'[t] = "idle"
            /\ initRet'.late = initRet.first /\ initRet'.first = initRet.first
            /\ UNCHANGED <<server, adv, pChar, stack, aborted>>
    ]_vars

\* a late init call has returned after a first call that failed
C8_Witness == initRet.first = "false" /\ initRet.late = "false"

\* C9: the registered property mask holds exactly one write variant iff some atom
\* grants write, and it is the variant of the strongest security requirement of
\* all the atoms; likewise for read; WriteEncrypted with WriteAuthenticated gives
\* the authenticated write.
C9_MaskHoldsStrongestSecurityVariant ==
  \A c \in Chars :
    stack.chars[c] > 0 =>
      LET S == perms[c]
          Level(a) == IF AtomFlags(a).requireAuthorization THEN 3
                      ELSE IF AtomFlags(a).requireAuthentication THEN 2
                      ELSE IF AtomFlags(a).requireEncryption THEN 1 ELSE 0
          Strongest == CHOOSE n \in 0..3 :
                         /\ \A a \in S : Level(a) <= n
                         /\ (n = 0 \/ \E a \in S : Level(a) = n)
          WriteVariant == <<"WRITE", "WRITE_ENC", "WRITE_AUTHEN", "WRITE_AUTHOR">>
          ReadVariant == <<"READ", "READ_ENC", "READ_AUTHEN", "READ_AUTHOR">>
      IN /\ stack.props[c] \cap {WriteVariant[i] : i \in 1..4} =
              IF \E a \in S : AtomFlags(a).canWrite
              THEN {WriteVariant[Strongest + 1]} ELSE {}
         /\ stack.props[c] \cap {ReadVariant[i] : i \in 1..4} =
              IF \E a \in S : AtomFlags(a).canRead
              THEN {ReadVariant[Strongest + 1]} ELSE {}
         /\ (S = {"WriteEncrypted", "WriteAuthenticated"}) =>
              stack.props[c] = {"WRITE_AUTHEN"}

\* WriteEncrypted with WriteAuthenticated has been registered
C9_Witness ==
  /\ perms["c2"] = {"WriteEncrypted", "WriteAuthenticated"}
  /\ stack.chars["c2"] > 0
  /\ stack.props["c2"] = {"WRITE_AUTHEN"}

\* C10: of the set calls made on one immutable SafePtr exactly one passes its
\* check: when a second call has passed it too, it has not stored its pointer.
C10_SecondPublishNeverStores ==
  \A c \in Chars : pubOk[c] >= 2 => pChar[c] = NULL

\* C11: SafePtr::call runs the function exactly when the pointer it loaded is
\* not null and returns a default value otherwise; a lock-free get returns
\* null or the one pointer that was stored, and once a get has returned a
\* pointer no later get returns anything else.
C11_CallIffNonNullAndGetIsStable ==
  /\ [](ret["ble"].op = "get" =>
          /\ (tptr["ble"] # NULL => tptr["ble"] = pChar[tchar["ble"]])
          /\ (firstSeen[tchar["ble"]] # NULL => tptr["ble"] = firstSeen[tchar["ble"]]))
  /\ [][pc["ble"] = "call" /\ pc'["ble"] = "idle" =>
          IF tptr["ble"] # NULL
          THEN /\ lastHandler' = [op |-> "fn", char |-> tchar["ble"], arg |-> 0]
               /\ ret'["ble"].val = "fn"
          ELSE /\ lastHandler' = NoHandler
               /\ ret'["ble"].val = "default"]_vars

\* a get returned the stored pointer, a publish to the same handle was refused
\* afterwards, and both outcomes of call have been seen
C11_Witness ==
  /\ ret["ble"].op = "call" /\ ret["ble"].val = "fn"
  /\ \E c \in Chars : firstSeen[c] # NULL /\ aborted
                        /\ \E t \in AppThreads : tchar[t] = c /\ pc[t] = "set_failed"

\* C12: set, get and invoke of a service's stored callback are serialized by
\* the lock of the service's tag: no task reads, writes or invokes the stored
\* callback while another task holds that lock.
C12_CallbackAccessesAreSerialized ==
  [][\A t \in Threads :
       \/ pc[t] = "init_reg" /\ pc'[t] = "init_fn"
       \/ pc[t] \in FpOps /\ pc'[t] = "fp_unlock"
       => lock[LockTag(Services[tidx[t]])].owner \in {NoThread, t}]_vars

\* C13: a subscribe event that would raise subscriber_count above the most
\* connections the stack keeps is fatal, so that while execution has not
\* aborted 0 <= subscriber_count <= NIMBLE_MAX_CONNECTIONS.
C13_CountWithinMaxConnections ==
  ~aborted => \A c \in Chars :
                0 <= subscriber_count[c] /\ subscriber_count[c] <= NIMBLE_MAX_CONNECTIONS

\* C14: an unsubscribe event delivered while subscriber_count is 0 aborts
\* execution without invoking the subscribe handler, and after an abort no
\* event is processed.
C14_UnsubscribeAtZeroIsFatal ==
  /\ [][\A c \in Chars :
          net'[c] = net[c] - 1 /\ subscriber_count[c] = 0
          => aborted' /\ lastHandler' = lastHandler]_vars
  /\ [][~aborted]_vars

\* the very first event was an unsubscribe: execution aborted with the counter
\* below zero and the subscribe handler never ran
C14_Witness ==
  /\ aborted /\ net["c1"] = -1 /\ subscriber_count["c1"] = -1
  /\ "subscribe" \in handlers["c1"] /\ lastHandler = NoHandler

\* C15: on a write event to a non-string characteristic the write handler is
\* invoked, with the value whose little-endian bytes are the first ValueSize
\* bytes of the payload, exactly when the payload has at least ValueSize
\* bytes; a shorter payload aborts execution and the handler is not invoked.
C15_WriteHandlerIffPayloadLongEnough ==
  [][(ret'["ble"] # ret["ble"] /\ ret'["ble"].op = "onWrite") =>
       LET d == ret'["ble"].val IN
         IF Len(d) >= ValueSize
         THEN /\ ~aborted'
              /\ lastHandler'.op = "write" /\ lastHandler'.char = "c2"
              /\ lastHandler'.arg \in 0..(256 ^ ValueSize - 1)
              /\ \A k \in 1..ValueSize :
                   (lastHandler'.arg \div 256 ^ (k - 1)) % 256 = d[k]
         ELSE aborted' /\ lastHandler' = lastHandler]_vars

\* a payload of exactly the declared size reached the handler as 0x01FF, and a
\* later one-byte payload aborted execution without reaching it
C15_Witness ==
  /\ aborted /\ ret["ble"].op = "onWrite" /\ Len(ret["ble"].val) = ValueSize - 1
  /\ lastHandler = [op |-> "write", char |-> "c2", arg |-> 511]

\* C16: setTxPower(d) returns true exactly when -12 <= d <= 9 and has then
\* stored d; setAdvInterval(min, max) returns true exactly when both lie in
\* 20..10240 and min <= max and has then stored the pair; a call that returns
\* false leaves the three stored overrides as they were.
C16_SettersStoreExactlyOrRefuse ==
  /\ [](\A t \in AppThreads : pc[t] = "idle" =>
          /\ ret[t].op = "setTxPower" =>
               /\ ret[t].val = "true" <=> (-12 <= ret[t].a /\ ret[t].a <= 9)
               /\ ret[t].val = "true" => runtime.tx_power = ret[t].a
          /\ ret[t].op = "setAdvInterval" =>
               /\ ret[t].val = "true" <=>
                    /\ 20 <= ret[t].a /\ ret[t].a <= 10240
                    /\ 20 <= ret[t].b /\ ret[t].b <= 10240
                    /\ ret[t].a <= ret[t].b
               /\ ret[t].val = "true" =>
                    /\ runtime.adv_interval_min = ret[t].a
                    /\ runtime.adv_interval_max = ret[t].b)
  /\ [][\A t \in AppThreads :
          (ret'[t] # ret[t] /\ ret'[t].val = "false") => runtime' = runtime]_vars

\* power 9 and the pair (20, 10240) were stored, and a later call with
\* min > max was refused and left them in place
C16_Witness ==
  /\ ret["app1"] = [op |-> "setAdvInterval", a |-> 10240, b |-> 20, val |-> "false"]
  /\ runtime = [tx_power |-> 9, adv_interval_min |-> 20, adv_interval_max |-> 10240]

C18_AdvertisingPartition ==
  stack.advStarts > 0 =>
    /\ stack.advData.name = "short" /\ stack.scanResp.name = "full"
    /\ \A i \in 1..Len(Services) :
         /\ Services[i] \in stack.advData.uuids <=> visibility[i] \in {"passive", "both"}
         /\ Services[i] \in stack.scanResp.uuids <=> visibility[i] \in {"active", "both"}
         /\ visibility[i] = "none" =>
              Services[i] \notin stack.advData.uuids \cup stack.scanResp.uuids

\* a bare service next to one advertised both ways
C18_Witness ==
  /\ visibility = <<"none", "both">> /\ stack.advertising
  /\ stack.advData = [name |-> "short", uuids |-> {"s2"}]
  /\ stack.scanResp = [name |-> "full", uuids |-> {"s2"}]

\* C19: during init no service is started before every service and every
\* characteristic has been registered, and advertising is not started before
\* every service has been started.
C19_NoPartialServerExposed ==
  /\ (\E i \in 1..Len(Services) : stack.started[i] > 0) =>
       \A j \in 1..Len(Services) :
         /\ stack.services[j] > 0
         /\ \A c \in CharsOf(Services[j]) : stack.chars[c] > 0 /\ pChar[c] # NULL
  /\ (stack.advStarts > 0 \/ stack.advertising) =>
       \A j \in 1..Len(Services) : stack.started[j] > 0

\* init is between the two start_service calls: everything is registered, the
\* first service runs, the second does not yet, advertising is off
C19_Witness ==
  /\ \E t \in AppThreads : pc[t] = "init_start" /\ tidx[t] = 2
  /\ stack.started = <<1, 0>> /\ stack.services = <<1, 1>>
  /\ stack.advStarts = 0 /\ ~stack.advertising

\* C20: when createServer has yielded no server, the init call that ran it
\* returns false, no service or characteristic is registered or started,
\* advertising is never started, and every later init call returns false.
C20_NoServerMeansInitFails ==
  (/\ init_called /\ server = NULL
   /\ \A t \in AppThreads : pc[t] # "init_create") =>
    /\ initRet.first = "false" /\ initRet.late \in {"none", "false"}
    /\ \A i \in 1..Len(Services) : stack.services[i] = 0 /\ stack.started[i] = 0
    /\ \A c \in Chars : stack.chars[c] = 0 /\ pChar[c] = NULL
    /\ stack.advStarts = 0 /\ ~stack.advertising /\ adv = NULL

\* createServer failed, the first init returned false and so did a later one
C20_Witness ==
  /\ init_called /\ server = NULL /\ stack.servers = 0
  /\ initRet = [first |-> "false", late |-> "false"]
  /\ \A t \in AppThreads : pc[t] # "init_create"

\* a service or characteristic of a registered service could not be created
CreationFailed ==
  \E i \in 1..Len(Services) :
    /\ stack.validated[i] # <<>>
    /\ ({Services[i]} \cup CharsOf(Services[i])) \cap noRoom # {}

\* C21: once the creation of a service or characteristic has failed during
\* registration, init starts no service and no advertising, and what it
\* returns is false.
C21_CreationFailureFailsInit ==
  CreationFailed =>
    /\ \A i \in 1..Len(Services) : stack.started[i] = 0
    /\ stack.advStarts = 0
    /\ initRet.first \in {"none", "false"}

\* Server lifecycle: init has returned true, so advertising has been started
Ready == initRet.first = "true"

\* C22: a Ready server stays Ready, and every disconnect event delivered to a
\* Ready server restarts advertising, with or without a disconnect handler of
\* the application.
C22_DisconnectRestartsAdvertising ==
  [][/\ Ready => Ready'
     /\ (Ready /\ stack'.connected < stack.connected) =>
          (stack'.advertising /\ stack'.advStarts = stack.advStarts + 1)]_vars

\* the interval overrides are those of one setAdvInterval call, or unset
OneSetOfOverrides ==
  \/ runtime.adv_interval_min = IntervalUnset /\ runtime.adv_interval_max = IntervalUnset
  \/ AdvIntervalValid(runtime.adv_interval_min, runtime.adv_interval_max)

\* C23: updateAdvertising with the handle published stops advertising,
\* configures it from the runtime overrides, which are then one consistent set,
\* and starts it, so that advertising is active when the call returns; with
\* the handle not published it does none of these.
C23_UpdateIsOneOperation ==
  [][\A t \in AppThreads :
       /\ (pc[t] = "idle" /\ ret'[t].op = "updateAdvertising" /\ ret'[t] # ret[t]) =>
            IF adv = NULL THEN stack' = stack /\ pc'[t] = "idle"
            ELSE stack'.advertising = FALSE /\ pc'[t] = "ua_cfg"
       /\ (pc[t] = "ua_cfg" /\ pc'[t] # "ua_cfg") =>
            /\ OneSetOfOverrides
            /\ stack' = configure(stack, runtime.tx_power, runtime.adv_interval_min,
                                  runtime.adv_interval_max)
            /\ pc'[t] = "ua_start"
       /\ (pc[t] = "ua_start" /\ pc'[t] # "ua_start") =>
            /\ stack'.advertising /\ stack'.advStarts = stack.advStarts + 1
            /\ pc'[t] = "idle"]_vars

\* C24: notified_value_valid goes from false to true only by the store of a
\* push that has left its critical section, and at that moment the attribute
\* holds a value written by a push.
C24_FlagSetAfterValueWritten ==
  [][\A c \in Chars :
       (~notified_value_valid[c] /\ notified_value_valid'[c]) =>
         /\ \E t \in Threads :
              pc[t] = "sv_flag" /\ tchar[t] = c /\ lock[c].owner # t
         /\ attr[c] \in Values]_vars

\* the stack can deliver a read event for c to its read handler's shim
ReadDeliverable(c) ==
  ~aborted /\ pc["ble"] = "idle" /\ Serving(c) /\ "read" \in handlers[c]

\* C25: a read event of a characteristic with a read handler returns at once,
\* with no handler run and nothing changed, exactly when the characteristic
\* has read and notify permission and notified_value_valid is true at that
\* moment; otherwise the handler runs once and its result is pushed: written
\* to the attribute and, for a notify-capable characteristic, transmitted.
C25_ReadHitsCacheIffFresh ==
  /\ [](\A c \in Chars :
          ReadDeliverable(c) =>
            ((ENABLED <<onRead(c)>>_vars) <=>
               ~(use_read_notify_optimization(c) /\ notified_value_valid[c])))
  /\ [][LET c == tchar'["ble"] IN
         /\ (pc["ble"] = "idle" /\ pc'["ble"] = "rd_handler") =>
              /\ "read" \in handlers[c]
              /\ ~(use_read_notify_optimization(c) /\ notified_value_valid[c])
              /\ attr' = attr /\ notified' = notified
         /\ (pc["ble"] = "rd_handler" /\ pc'["ble"] # "rd_handler") =>
              pc'["ble"] = "sv_lock" /\ tval'["ble"] \in Values /\ tchar' = tchar
         /\ (pc["ble"] = "sv_write" /\ pc'["ble"] # "sv_write") =>
              /\ attr'[c] = tval["ble"]
              /\ pc'["ble"] = IF Flags(c).canNotify THEN "sv_notify" ELSE "sv_unlock"
         /\ (pc["ble"] = "sv_notify" /\ pc'["ble"] # "sv_notify") =>
              notified'[c] = tval["ble"] /\ pc'["ble"] = "sv_unlock"
         /\ pc'["ble"] = "rd_handler" => pc["ble"] \in {"idle", "rd_handler"}]_vars

\* a read that missed the cache: the handler's result is in the attribute and
\* was transmitted to the subscribers
C25_Witness ==
  /\ pc["ble"] = "sv_unlock" /\ tchar["ble"] = "c1"
  /\ attr["c1"] = tval["ble"] /\ notified["c1"] = tval["ble"]
  /\ ~notified_value_valid["c1"]

\* the threads inside the ScopedLock block of setValue on c
InCriticalSection(c) ==
  {t \in Threads : pc[t] \in {"sv_write", "sv_notify", "sv_unlock"} /\ tchar[t] = c}

\* C26: at most one thread at a time is inside the write-and-notify critical
\* section of a characteristic, it owns the characteristic's lock, and each
\* notification transmits the value written by the push that sends it.
C26_PushesAreSerializedPerCharacteristic ==
  /\ [](\A c \in Chars :
          /\ Cardinality(InCriticalSection(c)) <= 1
          /\ \A t \in InCriticalSection(c) : lock[c].owner = t)
  /\ [][\A t \in Threads :
          (pc[t] = "sv_notify" /\ pc'[t] # "sv_notify") =>
            (notified'[tchar[t]] = tval[t] /\ attr[tchar[t]] = tval[t])]_vars

\* a push about to notify the value it wrote while another thread waits for
\* the same characteristic's lock with a different value
C26_Witness ==
  \E t, u \in Threads :
    /\ t # u /\ tchar[t] = tchar[u] /\ tval[t] # tval[u]
    /\ pc[t] = "sv_notify" /\ attr[tchar[t]] = tval[t]
    /\ pc[u] = "sv_lock"

\* C27: an operation on one characteristic (a push or one of its steps, a
\* read, write, status, subscribe or unsubscribe event) leaves the
\* subscriber_count, the notified_value_valid and the attribute value of every
\* other characteristic as they were.
C27_OtherCharacteristicsUntouched ==
  [][\A c \in Chars :
       EventOn(c) =>
         \A d \in Chars \ {c} :
           /\ subscriber_count'[d] = subscriber_count[d]
           /\ notified_value_valid'[d] = notified_value_valid[d]
           /\ attr'[d] = attr[d]]_vars

\* both characteristics hold state of their own: one has a subscriber and a
\* fresh pushed value, the other one has been written by a push of another
\* value and has no subscriber
C27_Witness ==
  /\ subscriber_count["c1"] = 1 /\ notified_value_valid["c1"] /\ attr["c1"] = 1
  /\ subscriber_count["c2"] = 0 /\ ~notified_value_valid["c2"] /\ attr["c2"] = 2
  /\ lastHandler.op = "status" /\ ret["ble"].op = "onWrite"

C29_ValidationAfterCharacteristics ==
  \A i \in 1..Len(Services) :
    /\ stack.validated[i] # <<>> =>
         CharsOf(Services[i]) \subseteq stack.validated[i][1]
    /\ stack.started[i] > 0 => stack.validated[i] # <<>>

\* C30: in the registered mask the read variant is that of the strongest
\* security requirement among the atoms that grant read, the write variant
\* that of the strongest among the atoms that grant write, and notify is
\* present, with no variant, exactly when an atom grants it.
C30_ReadAndWriteGatedIndependently ==
  \A c \in Chars :
    stack.chars[c] > 0 =>
      LET S == perms[c]
          Level(a) == IF AtomFlags(a).requireAuthorization THEN 3
                      ELSE IF AtomFlags(a).requireAuthentication THEN 2
                      ELSE IF AtomFlags(a).requireEncryption THEN 1 ELSE 0
          Strongest(T) == CHOOSE n \in 0..3 :
                            /\ \A a \in T : Level(a) <= n
                            /\ (n = 0 \/ \E a \in T : Level(a) = n)
          Readers == {a \in S : AtomFlags(a).canRead}
          Writers == {a \in S : AtomFlags(a).canWrite}
          WriteVariant == <<"WRITE", "WRITE_ENC", "WRITE_AUTHEN", "WRITE_AUTHOR">>
          ReadVariant == <<"READ", "READ_ENC", "READ_AUTHEN", "READ_AUTHOR">>
      IN /\ stack.props[c] \cap {ReadVariant[i] : i \in 1..4} =
              IF Readers # {} THEN {ReadVariant[Strongest(Readers) + 1]} ELSE {}
         /\ stack.props[c] \cap {WriteVariant[i] : i \in 1..4} =
              IF Writers # {} THEN {WriteVariant[Strongest(Writers) + 1]} ELSE {}
         /\ "NOTIFY" \in stack.props[c] <=> \E a \in S : AtomFlags(a).canNotify

\* C31: a status event hands the stack's completion code as it is to the
\* status handler when the characteristic declares one and invokes nothing
\* otherwise, and it leaves every subscriber_count, notified_value_valid and
\* attribute value unchanged.
C31_StatusForwardsCodeOnly ==
  [][\A c \in Chars, code \in StatusCodes :
       onStatus(c, code) =>
         /\ IF "status" \in handlers[c]
            THEN lastHandler' = [op |-> "status", char |-> c, arg |-> code]
            ELSE lastHandler' = lastHandler
         /\ subscriber_count' = subscriber_count
         /\ notified_value_valid' = notified_value_valid
         /\ attr' = attr]_vars

\* the status handler of the stream has received a code above one byte while
\* the stream has a subscriber and a fresh pushed value
C31_Witness ==
  /\ lastHandler = [op |-> "status", char |-> "c1", arg |-> 257]
  /\ subscriber_count["c1"] = 1 /\ notified_value_valid["c1"] /\ attr["c1"] = 2

\* C32: once the unsubscribe of the last subscriber has completed and every
\* push has returned, notified_value_valid is false unless a push has begun
\* after that unsubscribe.
C32_FlagFalseAfterLastUnsubscribe ==
  \A c \in Chars :
    (afterUnsub[c] /\ InFlight(c) = {}) => ~notified_value_valid[c]

\* C33: notified_value_valid is true only when some push has written a value
\* into the attribute: a push on a characteristic that is not yet published
\* leaves the flag false.
C33_FlagOnlyAfterAWrite ==
  \A c \in Chars : notified_value_valid[c] => attr[c] \in Values

\* C34: a push of v that begins and completes while a read event that has
\* already sampled is in flight is not overwritten by the older sample: when
\* the read event returns with no other push running, the attribute holds v.
C34_OlderSampleNeverOverwrites ==
  [][\A c \in Chars :
       (/\ Sampled(c) /\ pc'["ble"] = "idle"
        /\ newer[c] > 0 /\ InFlight(c) = {"ble"}
        /\ pChar[c] # NULL)
       => attr'[c] = newer[c]]_vars

\* C35: with either lock policy, a push through Characteristic::setValue sets
\* the flag the registered adapter reads: once a push on a read+notify
\* characteristic has completed with nothing overlapping it and nothing after
\* it, the adapter's flag is true.
C35_PushSetsTheAdaptersFlag ==
  \A c \in Chars :
    (/\ use_read_notify_optimization(c) /\ Serving(c)
     /\ InFlight(c) = {} /\ lastSeq[c].op = "push")
    => notified_value_valid[ShimOf(c)]

\* C36: the interval pair the stack has been given is a pair stored by one
\* setAdvInterval call or the declared one: its minimum never exceeds its
\* maximum, also when updateAdvertising runs while setAdvInterval stores.
C36_AppliedMinNeverExceedsMax ==
  (stack.minInterval # <<>> /\ stack.maxInterval # <<>>) =>
    stack.minInterval[1] <= stack.maxInterval[1]

\* C37: an init call that finds init_called set returns true only when
\* initialisation has completed: every service is registered and started and
\* advertising has been started.
C37_InitReturnsTrueOnlyWhenComplete ==
  [][\A t \in AppThreads :
       (pc[t] = "init_ret" /\ pc'[t] = "idle" /\ InitOutcome = InitOutcomeTrue) =>
         /\ \A j \in 1..Len(Services) : stack.services[j] > 0 /\ stack.started[j] > 0
         /\ stack.advStarts > 0]_vars

\* C38: no lock stays held once every thread is back at rest, and under fair
\* scheduling every operation under way (a push, a read event, an access to
\* or a call of a shared callback, an initialisation) completes and leaves its
\* thread holding no lock, also when a read handler or a callback called under
\* the service's lock calls setValue or takes the same lock again.
C38_EveryOperationCompletesAndUnlocks ==
  /\ []((\A t \in Threads : pc[t] = "idle") =>
          \A g \in Tags : lock[g] = [owner |-> NoThread, depth |-> 0])
  /\ \A t \in Threads :
       (pc[t] # "idle") ~> (pc[t] = "idle" /\ \A g \in Tags : lock[g].owner # t)

\* a callback called under its service's lock waits for the lock of the
\* characteristic it pushes to, which a task's push holds
C38_Witness ==
  /\ pc["app2"] = "sv_lock" /\ resume["app2"] = "fp_unlock"
  /\ lock[Services[tidx["app2"]]].owner = "app2"
  /\ lock[tchar["app2"]].owner = "app1"

====
